---- MODULE Spec2Model ----
(***************************************************************************)
(* SSO/OIDC bearer-token acquisition: the redirect listener AuthSSOServer  *)
(* (auth/sso/server.ts) and the SsoAccessTokenProvider                     *)
(* (auth/sso/ssoAccessTokenProvider.ts) with the expiry helpers of         *)
(* auth/sso/model.ts.                                                      *)
(***************************************************************************)
EXTENDS Integers, Sequences, FiniteSets, TLC

VARIABLES
    server,         \* server[s]: the fields of AuthSSOServer instance s
    served,         \* served[s]: history of the requests instance s handled
    firstCallback,  \* firstCallback[s]: the first request to "/" instance s handled
    srvResult,      \* srvResult[s]: how the last start()/close() call on s ended
    now,            \* globals.clock.Date.now(), in ms
    tokenCache,     \* cache.token: token cache key -> cached record, if any
    regCache,       \* cache.registration: {region, scopes} -> registration, if any
    sessionDates,   \* globalState['#sessionCreationDates']: key -> ms, if any
    calls,          \* calls[p]: the provider operation process p is running
    issued,         \* tokens the identity provider has issued so far
    registered,     \* clients the identity provider has registered so far
    begun           \* provider operations begun so far

serverVars == <<server, served, firstCallback, srvResult>>
cacheVars == <<tokenCache, regCache, sessionDates>>
providerVars == <<now, tokenCache, regCache, sessionDates, calls, issued, registered, begun>>
vars == <<server, served, firstCallback, srvResult,
          now, tokenCache, regCache, sessionDates, calls, issued, registered, begun>>

\* ------------------------------------------------------------------ bounds

\* Requests the listener driven on its own handles in a run.
MaxRequests == 2

\* Requests the listener of one authorize() invocation handles.
MaxRedirects == 1

\* Processes running provider operations; process p owns listener p. Two
\* of them run concurrently.
MaxProcs == 2

Procs == 1..MaxProcs

Servers == Procs

\* The listener instance the listener-only specification drives.
TestServers == {1}

\* The process that runs provider operations one after the other.
SeqProcs == {1}

\* Polls one startWorkspaceWithProgress() makes before its timeout is due.
MaxPolls == 3

\* The clock runs from 0 to MaxNow ms.
MaxNow == 1

\* ------------------------------------------------- AuthSSOServer: values

\* A query parameter: URLSearchParams.has(k) and URLSearchParams.get(k).
Absent == [has |-> FALSE, val |-> ""]

Present(v) == [has |-> TRUE, val |-> v]

\* JavaScript truthiness of params.get(k): null and "" are falsy.
Falsy(p) == ~p.has \/ p.val = ""

oauthCallback == "/"

\* http.Server.listen(60821)
ListenPort == 60821

CodeValues == {"", "XYZ"}
StateValues == {"", "abc", "bad"}
ErrorValues == {"", "foo"}
DescriptionValues == {"bar"}
PathValues == {"/", "/other"}

\* The state tokens an instance is constructed with.
ExpectedStates == {"abc", ""}

ParamsOf(S) == {Absent} \cup {Present(v) : v \in S}

\* req.url of an inbound request: absent, or a path with its query.
Requests ==
    [hasUrl : {TRUE}, path : PathValues, error : ParamsOf(ErrorValues),
     error_description : ParamsOf(DescriptionValues),
     code : ParamsOf(CodeValues), state : ParamsOf(StateValues)]
    \cup
    [hasUrl : {FALSE}, path : {""}, error : {Absent}, error_description : {Absent},
     code : {Absent}, state : {Absent}]

\* The ToolkitError subclasses of server.ts: their code and message.
MissingPortError == [code |-> "MissingPort", message |-> "AuthSSOServer: missing auth server port"]

MissingCodeError == [code |-> "MissingCode", message |-> "AuthSSOServer: missing code"]

MissingStateError == [code |-> "MissingState", message |-> "AuthSSOServer: missing state"]

InvalidStateError == [code |-> "InvalidState", message |-> "AuthSSOServer: invalid state"]

AuthError(error, errorDescription) ==
    [code |-> "AuthRedirectError", message |-> error \o ": " \o errorDescription]

NoError == [code |-> "", message |-> ""]

\* authenticationPromise: pending, resolved with a code, or rejected with an error.
Pending == [status |-> "pending", value |-> "", error |-> NoError]

Resolved(v) == [status |-> "resolved", value |-> v, error |-> NoError]

Rejected(e) == [status |-> "rejected", value |-> "", error |-> e]

\* A call of deferred.resolve / deferred.reject: the first settlement of a
\* promise stands, a later call does nothing.
SettleAlways(promise, outcome) == outcome

Settle(promise, outcome) ==
    IF promise.status = "pending" THEN outcome ELSE promise

\* handleToken(params): the settlement it asks for.
handleTokenStateFirst(params, expected) ==
    IF Falsy(params.state) THEN Rejected(MissingStateError)
    ELSE IF Falsy(params.code) THEN Rejected(MissingCodeError)
    ELSE IF params.state.val # expected THEN Rejected(InvalidStateError)
    ELSE Resolved(params.code.val)

handleToken(params, expected) ==
    IF Falsy(params.code) THEN Rejected(MissingCodeError)
    ELSE IF Falsy(params.state) THEN Rejected(MissingStateError)
    ELSE IF params.state.val # expected THEN Rejected(InvalidStateError)
    ELSE Resolved(params.code.val)

\* handleAuthentication(params): the settlement it asks for.
handleAuthenticationEitherParam(params, expected) ==
    IF params.error.has \/ params.error_description.has
    THEN Rejected(AuthError(params.error.val, params.error_description.val))
    ELSE handleToken(params, expected)

handleAuthentication(params, expected) ==
    IF params.error.has /\ params.error_description.has
    THEN Rejected(AuthError(params.error.val, params.error_description.val))
    ELSE handleToken(params, expected)

\* server.address(): null unless the server is listening.
HasAddress(srv) == srv.listening

\* new AuthSSOServer(state)
NewServer(state) ==
    [state |-> state, listening |-> FALSE, promise |-> Pending,
     connections |-> <<>>]

NoResult == [op |-> "", ok |-> TRUE, error |-> ""]

\* Whether some other listener of this process holds port 60821.
PortHeldByNone(s) == FALSE

PortHeldByOther(s) == \E t \in Servers \ {s} : server[t].listening

\* close(): connection.destroy() on every connection accepted so far.
DestroyNone(conns) == conns

DestroyAll(conns) == [i \in DOMAIN conns |-> "destroyed"]

\* --------------------------------------------- AuthSSOServer: operations

\* start(): throws when already listening; else listen(60821), which fails
\* when the port cannot be bound and otherwise leaves the server listening.
start(s, bindOk) ==
    IF server[s].listening
    THEN /\ srvResult' = [srvResult EXCEPT ![s] =
                [op |-> "start", ok |-> FALSE, error |-> "AuthSSOServer: Server already started"]]
         /\ UNCHANGED server
    ELSE IF ~bindOk \/ PortHeldByOther(s)
    THEN /\ srvResult' = [srvResult EXCEPT ![s] =
                [op |-> "start", ok |-> FALSE, error |-> "AuthSSOServer: Server failed"]]
         /\ UNCHANGED server
    ELSE /\ server' = [server EXCEPT ![s].listening = TRUE]
         /\ srvResult' = [srvResult EXCEPT ![s] = [op |-> "start", ok |-> TRUE, error |-> ""]]

\* close(): rejects when not listening; destroys every connection; closes.
close(s) ==
    /\ server' = [server EXCEPT ![s].listening = FALSE,
                                ![s].connections = DestroyAll(@)]
    /\ srvResult' = [srvResult EXCEPT ![s] =
            IF server[s].listening
            THEN [op |-> "close", ok |-> TRUE, error |-> ""]
            ELSE [op |-> "close", ok |-> FALSE, error |-> "AuthSSOServer: Server not started"]]

\* The request listener of http.createServer, for one inbound request on a
\* new connection: 200 "Success!" on the callback path, no response otherwise.
IsCallback(req) == req.hasUrl /\ req.path = oauthCallback

\* The status the listener answers a request with (0: no response written).
ResponseStatusByOutcome(req, expected) ==
    IF ~IsCallback(req) THEN 0
    ELSE IF handleAuthentication(req, expected).status = "resolved" THEN 200
    ELSE 400

ResponseStatus(req, expected) == IF IsCallback(req) THEN 200 ELSE 0

handleRequest(s, req) ==
    /\ server[s].listening
    /\ server' = [server EXCEPT
            ![s].connections = Append(@, "open"),
            ![s].promise = IF IsCallback(req)
                           THEN Settle(@, handleAuthentication(req, server[s].state))
                           ELSE @]
    /\ served' = [served EXCEPT ![s] = Append(@,
            [callback |-> IsCallback(req),
             asked |-> IF IsCallback(req)
                       THEN handleAuthentication(req, server[s].state) ELSE Pending,
             status |-> ResponseStatus(req, server[s].state)])]
    /\ firstCallback' = [firstCallback EXCEPT ![s] =
            IF IsCallback(req) /\ ~@.seen THEN [seen |-> TRUE, req |-> req] ELSE @]

NoRequest ==
    [hasUrl |-> FALSE, path |-> "", error |-> Absent, error_description |-> Absent,
     code |-> Absent, state |-> Absent]

\* ------------------------------------------- SsoAccessTokenProvider: values

\* An optional value: <<>> when undefined, <<v>> otherwise.
None == <<>>

Some(v) == <<v>>

IsSome(o) == o # <<>>

ValueOf(o) == o[1]

builderIdStartUrl == "https://view.awsapps.com/start"

\* The profiles providers are constructed with: equal region and scopes,
\* different startUrl, with and without an identifier.
BuilderIdProfile ==
    [region |-> "us-east-1", startUrl |-> builderIdStartUrl,
     scopes |-> <<"codecatalyst:read_write">>, identifier |-> Absent]

IdcProfile ==
    [region |-> "us-east-1", startUrl |-> "https://corp.awsapps.com/start",
     scopes |-> <<"codecatalyst:read_write">>, identifier |-> Present("corp")]

Profiles == {BuilderIdProfile, IdcProfile}

\* get tokenCacheKey(): profile.identifier ?? profile.startUrl
tokenCacheKeyStartUrlOnly(profile) == profile.startUrl

tokenCacheKey(profile) ==
    IF profile.identifier.has THEN profile.identifier.val ELSE profile.startUrl

\* get registrationCacheKey(): { region, scopes }
registrationCacheKeyPerStartUrl(profile) ==
    [region |-> profile.region, scopes |-> profile.scopes, startUrl |-> profile.startUrl]

registrationCacheKey(profile) == [region |-> profile.region, scopes |-> profile.scopes]

\* Every string a token cache key is derived from.
TokenKeys ==
    {pr.startUrl : pr \in Profiles} \cup {pr.identifier.val : pr \in {q \in Profiles : q.identifier.has}}

RegistrationKeys == {registrationCacheKey(pr) : pr \in Profiles}

\* const expirationBufferMs = 60000
expirationBufferMs == 60000

\* isExpired(expirable): now + expirationBufferMs >= expiresAt
isExpiredNoBuffer(expirable, clock) == clock >= expirable.expiresAt

isExpiredLateBuffer(expirable, clock) ==
    clock + expirationBufferMs + 1 >= expirable.expiresAt

isExpired(expirable, clock) == clock + expirationBufferMs >= expirable.expiresAt

\* isDeprecatedAuth(registration): issuerUrl === undefined
isDeprecatedAuth(registration) == ~registration.issuerUrl.has

\* hasProps(token, 'refreshToken'): the property is not undefined
HasRefreshToken(token) == token.refreshToken.has

\* Lifetimes (expiresAt - now, in ms) the identity provider gives what it
\* issues: expired on arrival under the buffer, or valid for 1 ms more.
Lifetimes == {expirationBufferMs, expirationBufferMs + 1}

\* A ClientRegistration the provider registered as client number n.
Registration(n, expiresAt, scopes, issuerUrl) ==
    [clientId |-> n, clientSecret |-> n, expiresAt |-> expiresAt,
     scopes |-> scopes, issuerUrl |-> issuerUrl]

\* An SsoToken issued as token number n.
Token(n, expiresAt, refreshToken) ==
    [accessToken |-> n, expiresAt |-> expiresAt, refreshToken |-> refreshToken,
     identity |-> Absent]

\* formatToken(token, registration)
formatTokenWithoutRegistration(token, registration, profile) ==
    [token |-> token, registration |-> None,
     region |-> profile.region, startUrl |-> profile.startUrl]

formatToken(token, registration, profile) ==
    [token |-> token, registration |-> Some(registration),
     region |-> profile.region, startUrl |-> profile.startUrl]

\* Errors: class tells how isNetworkError and isClientFault classify them.
Err(class, code, message) == [class |-> class, code |-> code, message |-> message]

NoErr == Err("none", "", "")

ToolkitErr(e) == Err("toolkit", e.code, e.message)

CacheErr(what) == Err("cache", what, "cache failure")

OidcErr(class, what) == Err(class, what, "SSOOIDCServiceException")

isNetworkError(e) == e.class = "network"

\* err instanceof SSOOIDCServiceException && isClientFault(err)
isServiceClientFault(e) == e.class = "clientFault"

\* How a call of the OIDC client ends.
OidcOutcomes == {"ok", "network", "clientFault", "serverFault"}

\* An entry of the record of collaborator calls an operation made.
Call(api, arg, reg) == [api |-> api, arg |-> arg, reg |-> reg]

refreshGrantType == "refresh_token"

authorizationGrantType == "authorization_code"

\* How an operation ended.
NoOutcome == [status |-> "none", token |-> None, error |-> NoErr]

Returned(tok) == [status |-> "returned", token |-> tok, error |-> NoErr]

Threw(e) == [status |-> "threw", token |-> None, error |-> e]

\* The requests authorize() sends to OIDC, before it has sent them.
NoAuthorizeRequest ==
    [clientId |-> 0, redirectUri |-> "", scopes |-> <<>>, state |-> "", codeChallenge |-> ""]

NoTokenRequest ==
    [clientId |-> 0, clientSecret |-> 0, grantType |-> "", redirectUri |-> "",
     codeVerifier |-> "", code |-> ""]

\* CawsClient.startWorkspaceWithProgress() before it is called: the status
\* asked for, lastStatus ("" for undefined), what the reads observed (the
\* initial read first), the reads after which startDevelopmentWorkspace
\* was called, and how the call ended.
NoWorkspaceCall ==
    [pc |-> "idle", requested |-> "", lastStatus |-> "", observed |-> <<>>,
     starts |-> {}, result |-> [status |-> "none", code |-> "", workspace |-> ""]]

\* The `id` argument of setCredentials() when it is left out.
NoId == [kind |-> "undefined", value |-> ""]

\* new CawsClientInternal(regionCode, endpoint, sdkClient,
\* bearerTokenProvider?): the fields userId and userDetails (None for
\* undefined, the details named by their userId), whether a bearer-token
\* provider is set, and the call in progress: its name, its id argument,
\* where it is, the fields as verifySession() found them, the service
\* requests it sent, the identity the service returned and how it ended.
NewCawsClient(withProvider) ==
    [bearerTokenProvider |-> withProvider, userId |-> None, userDetails |-> None,
     op |-> "none", id |-> NoId, pc |-> "idle",
     entry |-> [bearerTokenProvider |-> withProvider, userId |-> None,
                userDetails |-> None],
     requests |-> <<>>, identity |-> None, result |-> "none"]

\* A process that runs nothing.
IdleCall ==
    [op |-> "none", pc |-> "idle", profile |-> BuilderIdProfile,
     data |-> None, registration |-> None, access |-> None,
     pendingClears |-> {}, failedClears |-> {}, ret |-> "", outcome |-> NoOutcome,
     cachedAtBegin |-> None, previous |-> None,
     expirable |-> None, answer |-> None,
     result |-> NoOutcome, log |-> <<>>,
     authState |-> "", codeVerifier |-> "", redirectUri |-> "", code |-> "",
     invocation |-> 0, authorizeRequest |-> NoAuthorizeRequest,
     tokenRequest |-> NoTokenRequest,
     workspace |-> NoWorkspaceCall,
     client |-> NewCawsClient(FALSE),
     newDates |-> [k \in TokenKeys |-> None]]

providerVarsButCalls == <<now, tokenCache, regCache, sessionDates, issued, registered, begun>>

Key(p) == tokenCacheKey(calls[p].profile)

RegKey(p) == registrationCacheKey(calls[p].profile)

\* ------------------------------------------------------ cache capability

\* cache.token / cache.registration: load, save and clear of one key; a
\* failed call changes nothing.
CacheSave(cache, key, value, ok) ==
    IF ok THEN [cache EXCEPT ![key] = Some(value)] ELSE cache

CacheClear(cache, key, ok) ==
    IF ok THEN [cache EXCEPT ![key] = None] ELSE cache

\* ------------------------------------- SsoAccessTokenProvider: operations

\* Process p runs one operation.
CanBegin(p) == calls[p].pc = "idle"

\* The operation of process p ends with `outcome`.
Finish(p, entries, outcome) ==
    calls' = [calls EXCEPT ![p].pc = "done", ![p].result = outcome,
                           ![p].log = @ \o entries]

\* invalidate(): the caches whose clear() it hands to Promise.allSettled.
InvalidateClearsTokenOnly == <<"token">>

InvalidateClears == <<"token", "registration">>

ClearTargets == {InvalidateClears[i] : i \in DOMAIN InvalidateClears}

\* invalidate(): the clear calls are issued at once.
ClearCalls ==
    [i \in DOMAIN InvalidateClears |-> Call(InvalidateClears[i] \o ".clear", "", None)]

\* getToken() serves what the load gave without any further call.
ServesCachedOnlyWhenEmpty(data, clock) == ~IsSome(data)

ServesCached(data, clock) == ~IsSome(data) \/ ~isExpired(ValueOf(data).token, clock)

\* A refresh attempted whether or not the token carries a refresh token.
CanRefreshWithoutRefreshToken(record, clock) ==
    /\ IsSome(record.registration)
    /\ ~isExpired(ValueOf(record.registration), clock)

\* getToken() refreshes the expired token of `record`.
CanRefresh(record, clock) ==
    /\ IsSome(record.registration)
    /\ ~isExpired(ValueOf(record.registration), clock)
    /\ HasRefreshToken(record.token)

\* public async invalidate()
invalidate(p, profile) ==
    /\ CanBegin(p)
    /\ begun' = begun + 1
    /\ calls' = [calls EXCEPT ![p] =
            [IdleCall EXCEPT !.op = "invalidate", !.profile = profile,
                             !.cachedAtBegin = tokenCache[tokenCacheKey(profile)],
                             !.pc = "awaitClears", !.ret = "invalidate",
                             !.pendingClears = ClearTargets,
                             !.log = ClearCalls]]
    /\ UNCHANGED <<serverVars, now, cacheVars, issued, registered>>

\* public async getToken(): up to `await this.cache.token.load(...)`
getToken(p, profile) ==
    /\ CanBegin(p)
    /\ begun' = begun + 1
    /\ calls' = [calls EXCEPT ![p] =
            [IdleCall EXCEPT !.op = "getToken", !.profile = profile,
                             !.cachedAtBegin = tokenCache[tokenCacheKey(profile)],
                             !.pc = "awaitTokenLoad",
                             !.log = <<Call("token.load", "", None)>>]]
    /\ UNCHANGED <<serverVars, now, cacheVars, issued, registered>>

\* createToken() of process p has returned a token and nothing ran since.
CreatedToken(p) ==
    /\ calls[p].op = "createToken"
    /\ calls[p].pc = "done"
    /\ calls[p].result.status = "returned"

\* getToken() called on the same provider right after its createToken()
\* returned; `previous` keeps what createToken() returned.
getTokenAfterCreateToken(p) ==
    /\ CreatedToken(p)
    /\ begun' = begun + 1
    /\ calls' = [calls EXCEPT ![p] =
            [IdleCall EXCEPT !.op = "getToken", !.profile = calls[p].profile,
                             !.cachedAtBegin = tokenCache[Key(p)],
                             !.previous = calls[p].result.token,
                             !.pc = "awaitTokenLoad",
                             !.log = <<Call("token.load", "", None)>>]]
    /\ UNCHANGED <<serverVars, now, cacheVars, issued, registered>>

\* getToken(): the load settled; the cached token is served, or the
\* refresh is started, or invalidate() is.
getTokenLoaded(p, ok) ==
    /\ calls[p].pc = "awaitTokenLoad"
    /\ LET data == tokenCache[Key(p)] IN
       IF ~ok THEN Finish(p, <<>>, Threw(CacheErr("token.load")))
       ELSE IF ServesCached(data, now)
       THEN calls' = [calls EXCEPT
                ![p].pc = "done", ![p].data = data,
                ![p].result = Returned(IF IsSome(data) THEN Some(ValueOf(data).token)
                                       ELSE None)]
       ELSE IF CanRefresh(ValueOf(data), now)
       THEN calls' = [calls EXCEPT
                ![p].pc = "awaitRefresh", ![p].data = data,
                ![p].registration = ValueOf(data).registration,
                ![p].log = Append(@, Call("oidc.createToken", refreshGrantType,
                                          ValueOf(data).registration))]
       ELSE calls' = [calls EXCEPT
                ![p].pc = "awaitClears", ![p].ret = "getToken", ![p].data = data,
                ![p].pendingClears = ClearTargets,
                ![p].log = @ \o ClearCalls]
    /\ UNCHANGED <<serverVars, now, cacheVars, issued, registered, begun>>

\* credentialSourceId of the telemetry record refreshToken emits.
credentialSourceIdAlwaysAwsId(profile) == "awsId"

credentialSourceId(profile) ==
    IF profile.startUrl = builderIdStartUrl THEN "awsId" ELSE "iamIdentityCenter"

\* telemetry.aws_refreshCredentials.emit(...) unless isNetworkError(err)
RefreshTelemetryWhateverError(p, e) ==
    <<Call("telemetry.aws_refreshCredentials",
           credentialSourceId(calls[p].profile), None)>>

RefreshTelemetry(p, e) ==
    IF isNetworkError(e) THEN <<>>
    ELSE <<Call("telemetry.aws_refreshCredentials",
                credentialSourceId(calls[p].profile), None)>>

\* The catch block of refreshToken for error e, up to its await or throw.
RefreshFailedOnlyRethrows(p, e) ==
    calls' = [calls EXCEPT ![p].pc = "done", ![p].result = Threw(e)]

RefreshFailed(p, e) ==
    IF ~isNetworkError(e) /\ isServiceClientFault(e)
    THEN calls' = [calls EXCEPT
            ![p].pc = "awaitRefreshClear", ![p].outcome = Threw(e),
            ![p].log = @ \o RefreshTelemetry(p, e)
                         \o <<Call("token.clear", "client fault", None)>>]
    ELSE Finish(p, RefreshTelemetry(p, e), Threw(e))

\* refreshToken(): oidc.createToken settled.
refreshTokenResponded(p, outcome, lifetime, refreshToken) ==
    /\ calls[p].pc = "awaitRefresh"
    /\ IF outcome = "ok"
       THEN /\ issued' = issued + 1
            /\ calls' = [calls EXCEPT
                    ![p].pc = "awaitRefreshSave",
                    ![p].access = Some(formatToken(
                        Token(issued + 1, now + lifetime, refreshToken),
                        ValueOf(calls[p].registration), calls[p].profile)),
                    ![p].log = Append(@, Call("token.save", "", calls[p].registration))]
       ELSE /\ RefreshFailed(p, OidcErr(outcome, "oidc.createToken"))
            /\ UNCHANGED issued
    /\ UNCHANGED <<serverVars, now, cacheVars, registered, begun>>

\* refreshToken(): cache.token.save settled.
refreshTokenSaved(p, ok) ==
    /\ calls[p].pc = "awaitRefreshSave"
    /\ tokenCache' = CacheSave(tokenCache, Key(p), ValueOf(calls[p].access), ok)
    /\ IF ok
       THEN Finish(p, <<>>, Returned(Some(ValueOf(calls[p].access).token)))
       ELSE RefreshFailed(p, CacheErr("token.save"))
    /\ UNCHANGED <<serverVars, now, regCache, sessionDates, issued, registered, begun>>

\* refreshToken(): the cache.token.clear of the catch block settled.
refreshTokenCleared(p, ok) ==
    /\ calls[p].pc = "awaitRefreshClear"
    /\ tokenCache' = CacheClear(tokenCache, Key(p), ok)
    /\ IF ok
       THEN Finish(p, <<>>, calls[p].outcome)
       ELSE Finish(p, <<>>, Threw(CacheErr("token.clear")))
    /\ UNCHANGED <<serverVars, now, regCache, sessionDates, issued, registered, begun>>

\* The clock advances.
Tick ==
    /\ now < MaxNow
    /\ now' = now + 1
    /\ UNCHANGED <<serverVars, cacheVars, calls, issued, registered, begun>>

\* Where the caller of invalidate() goes on once allSettled() has settled:
\* getValidatedClientRegistration() to loadOr(), the others return.
AfterInvalidateAlwaysRegisters(ret) == "awaitLoadOr"

AfterInvalidate(ret) ==
    IF ret = "getValidatedClientRegistration" THEN "awaitLoadOr" ELSE "done"

\* invalidate(): one of the two clear calls settled; allSettled() goes on
\* when both have, whatever their results.
clearSettled(p, which, ok) ==
    /\ calls[p].pc = "awaitClears"
    /\ which \in calls[p].pendingClears
    /\ IF which = "token"
       THEN /\ tokenCache' = CacheClear(tokenCache, Key(p), ok)
            /\ UNCHANGED regCache
       ELSE /\ regCache' = CacheClear(regCache, RegKey(p), ok)
            /\ UNCHANGED tokenCache
    /\ LET failed == calls[p].failedClears \cup (IF ok THEN {} ELSE {which}) IN
       IF calls[p].pendingClears # {which}
       THEN calls' = [calls EXCEPT ![p].pendingClears = @ \ {which},
                                   ![p].failedClears = failed]
       ELSE IF AfterInvalidate(calls[p].ret) = "awaitLoadOr"
       THEN calls' = [calls EXCEPT
                ![p].pendingClears = {}, ![p].failedClears = failed,
                ![p].pc = "awaitLoadOr",
                ![p].log = Append(@, Call("registration.load", "loadOr", None))]
       ELSE calls' = [calls EXCEPT
                ![p].pendingClears = {}, ![p].failedClears = failed,
                ![p].pc = "done", ![p].result = Returned(None)]
    /\ UNCHANGED <<serverVars, now, sessionDates, issued, registered, begun>>

\* public async createToken(): runFlow() and getValidatedClientRegistration()
\* up to `await this.cache.registration.load(cacheKey)`
createToken(p, profile) ==
    /\ CanBegin(p)
    /\ begun' = begun + 1
    /\ calls' = [calls EXCEPT ![p] =
            [IdleCall EXCEPT !.op = "createToken", !.profile = profile,
                             !.invocation = begun + 1,
                             !.cachedAtBegin = tokenCache[tokenCacheKey(profile)],
                             !.pc = "awaitRegistrationLoad",
                             !.log = <<Call("registration.load", "", None)>>]]
    /\ UNCHANGED <<serverVars, now, cacheVars, issued, registered>>

\* getValidatedClientRegistration(): the cached registration must go.
MustInvalidateWhateverCached(cached, clock) == IsSome(cached)

MustInvalidate(cached, clock) ==
    IsSome(cached) /\ (isExpired(ValueOf(cached), clock) \/ isDeprecatedAuth(ValueOf(cached)))

\* getValidatedClientRegistration(): the load settled.
registrationLoaded(p, ok) ==
    /\ calls[p].pc = "awaitRegistrationLoad"
    /\ IF ~ok THEN Finish(p, <<>>, Threw(CacheErr("registration.load")))
       ELSE IF MustInvalidate(regCache[RegKey(p)], now)
       THEN calls' = [calls EXCEPT
                ![p].pc = "awaitClears", ![p].ret = "getValidatedClientRegistration",
                ![p].pendingClears = ClearTargets,
                ![p].log = @ \o ClearCalls]
       ELSE calls' = [calls EXCEPT
                ![p].pc = "awaitLoadOr",
                ![p].log = Append(@, Call("registration.load", "loadOr", None))]
    /\ UNCHANGED <<serverVars, now, cacheVars, issued, registered, begun>>

\* authorize(registration) up to `await authServer.start()`: a new state
\* token and a new listener constructed with it.
\* randomUUID(): a value no other invocation gets, named by the number of
\* the invocation.
NewStateReused(p) == "state-0"

NewState(p) == "state-" \o ToString(calls[p].invocation)

BeginAuthorize(p, registration, entries) ==
    /\ calls' = [calls EXCEPT
            ![p].pc = "awaitStart", ![p].registration = registration,
            ![p].authState = NewState(p),
            ![p].log = @ \o entries \o <<Call("server.start", NewState(p), None)>>]
    /\ server' = [server EXCEPT ![p] = NewServer(NewState(p))]
    /\ served' = [served EXCEPT ![p] = <<>>]
    /\ firstCallback' = [firstCallback EXCEPT ![p] = [seen |-> FALSE, req |-> NoRequest]]
    /\ srvResult' = [srvResult EXCEPT ![p] = NoResult]

\* loadOr(cache.registration, cacheKey, () => registerClient()): the load
\* settled; a cached registration is returned as it is.
loadOrLoaded(p, ok) ==
    /\ calls[p].pc = "awaitLoadOr"
    /\ IF ~ok
       THEN /\ Finish(p, <<>>, Threw(CacheErr("registration.load")))
            /\ UNCHANGED serverVars
       ELSE IF IsSome(regCache[RegKey(p)])
       THEN BeginAuthorize(p, regCache[RegKey(p)], <<>>)
       ELSE /\ calls' = [calls EXCEPT
                    ![p].pc = "awaitRegisterClient",
                    ![p].log = Append(@, Call("oidc.registerClient",
                                              calls[p].profile.startUrl, None))]
            /\ UNCHANGED serverVars
    /\ UNCHANGED <<now, cacheVars, issued, registered, begun>>

\* oidc.registerClient({..., scopes, issuerUrl: profile.startUrl}) settled.
registerClientResponded(p, outcome, lifetime) ==
    /\ calls[p].pc = "awaitRegisterClient"
    /\ IF outcome = "ok"
       THEN /\ registered' = registered + 1
            /\ calls' = [calls EXCEPT
                    ![p].pc = "awaitRegistrationSave",
                    ![p].registration = Some(Registration(registered + 1, now + lifetime,
                        calls[p].profile.scopes, Present(calls[p].profile.startUrl))),
                    ![p].log = Append(@, Call("registration.save", "loadOr", None))]
       ELSE /\ Finish(p, <<>>, Threw(OidcErr(outcome, "oidc.registerClient")))
            /\ UNCHANGED registered
    /\ UNCHANGED <<serverVars, now, cacheVars, issued, begun>>

\* loadOr: the save of the new registration settled.
registrationSaved(p, ok) ==
    /\ calls[p].pc = "awaitRegistrationSave"
    /\ regCache' = CacheSave(regCache, RegKey(p), ValueOf(calls[p].registration), ok)
    /\ IF ok
       THEN BeginAuthorize(p, calls[p].registration, <<>>)
       ELSE /\ Finish(p, <<>>, Threw(CacheErr("registration.save")))
            /\ UNCHANGED serverVars
    /\ UNCHANGED <<now, tokenCache, sessionDates, issued, registered, begun>>

\* authorize(): the catch and finally blocks, up to `await authServer.close()`.
ThenRethrow(p, outcome, entries) ==
    calls' = [calls EXCEPT ![p].pc = "done", ![p].result = outcome,
                           ![p].log = @ \o entries]

ThenClose(p, outcome, entries) ==
    calls' = [calls EXCEPT
        ![p].pc = "awaitClose", ![p].outcome = outcome,
        ![p].log = @ \o entries \o <<Call("server.close", "", None)>>]

baseUrl == "http://127.0.0.1"

\* getPort(): the port of server.address(), MissingPortError when there is
\* no address.
getPortWhateverAddress(srv) == [ok |-> TRUE, port |-> ListenPort, error |-> NoError]

getPort(srv) ==
    IF HasAddress(srv)
    THEN [ok |-> TRUE, port |-> ListenPort, error |-> NoError]
    ELSE [ok |-> FALSE, port |-> 0, error |-> MissingPortError]

\* get redirectUri(): `${this.baseUrl}:${this.getPort()}`
redirectUri(srv) ==
    IF getPort(srv).ok
    THEN [ok |-> TRUE, value |-> baseUrl \o ":" \o ToString(getPort(srv).port),
          error |-> NoError]
    ELSE [ok |-> FALSE, value |-> "", error |-> getPort(srv).error]

\* randomBytes(32).toString('base64url'): as randomUUID() above.
NewVerifier(p) == "verifier-" \o ToString(calls[p].invocation)

\* createHash('sha256').update(codeVerifier).digest().toString('base64url')
S256(codeVerifier) == "S256:" \o codeVerifier

\* The request of `this.oidc.authorize({...})`.
AuthorizeRequest(p, uri, codeVerifier) ==
    [clientId |-> ValueOf(calls[p].registration).clientId,
     redirectUri |-> uri,
     scopes |-> calls[p].profile.scopes,
     state |-> calls[p].authState,
     codeChallenge |-> S256(codeVerifier)]

\* const tokenRequest = {...}: the request of the code exchange.
TokenRequestOtherVerifier(p, code) ==
    [clientId |-> ValueOf(calls[p].registration).clientId,
     clientSecret |-> ValueOf(calls[p].registration).clientSecret,
     grantType |-> authorizationGrantType,
     redirectUri |-> calls[p].redirectUri,
     codeVerifier |-> NewVerifier(p) \o "'",
     code |-> code]

TokenRequest(p, code) ==
    [clientId |-> ValueOf(calls[p].registration).clientId,
     clientSecret |-> ValueOf(calls[p].registration).clientSecret,
     grantType |-> authorizationGrantType,
     redirectUri |-> calls[p].redirectUri,
     codeVerifier |-> calls[p].codeVerifier,
     code |-> code]

\* authorize(): start() settled.
startSettled(p, bindOk) ==
    /\ calls[p].pc = "awaitStart"
    /\ start(p, bindOk)
    /\ IF ~srvResult'[p].ok
       THEN ThenClose(p, Threw(Err("toolkit", "", srvResult'[p].error)), <<>>)
       ELSE IF ~redirectUri(server'[p]).ok
       THEN ThenClose(p, Threw(ToolkitErr(redirectUri(server'[p]).error)), <<>>)
       ELSE calls' = [calls EXCEPT
                ![p].pc = "awaitAuthorize",
                ![p].redirectUri = redirectUri(server'[p]).value,
                ![p].codeVerifier = NewVerifier(p),
                ![p].authorizeRequest =
                    AuthorizeRequest(p, redirectUri(server'[p]).value, NewVerifier(p)),
                ![p].log = @ \o <<Call("server.redirectUri", "", None),
                                   Call("oidc.authorize", calls[p].authState,
                                        calls[p].registration)>>]
    /\ UNCHANGED <<served, firstCallback, providerVarsButCalls>>

\* The URL oidc.authorize answers with for a request carrying `state`.
AuthorizeLocation(state) == "https://oidc/authorize?state=" \o state

\* authorize(): oidc.authorize settled; openSsoPortalLink(location) calls
\* vscode.env.openExternal(location).
authorizeResponded(p, outcome) ==
    /\ calls[p].pc = "awaitAuthorize"
    /\ IF outcome = "ok"
       THEN calls' = [calls EXCEPT
                ![p].pc = "awaitOpen",
                ![p].log = Append(@, Call("openExternal",
                                          AuthorizeLocation(calls[p].authState), None))]
       ELSE ThenClose(p, Threw(OidcErr(outcome, "oidc.authorize")), <<>>)
    /\ UNCHANGED <<serverVars, providerVarsButCalls>>

trustedDomainCancellation == "TrustedDomainCancellation"

CancelledErr ==
    Err("cancelled", trustedDomainCancellation,
        "User clicked 'Copy' or 'Cancel' during the Trusted Domain popup")

\* new CancellationError('user')
UserCancelledErr == Err("cancelled", "", "user")

\* openSsoPortalLink(location), once openExternal answered didOpenUrl: it
\* throws on false and returns didOpenUrl otherwise.
openSsoPortalLinkReturnsAnswer(didOpenUrl) ==
    [ok |-> TRUE, value |-> didOpenUrl, error |-> NoErr]

openSsoPortalLink(didOpenUrl) ==
    IF ~didOpenUrl
    THEN [ok |-> FALSE, value |-> FALSE, error |-> CancelledErr]
    ELSE [ok |-> TRUE, value |-> didOpenUrl, error |-> NoErr]

\* authorize(): `if (!(await openSsoPortalLink(location))) throw new
\* CancellationError('user')`, then waitForAuthorization() is awaited.
openSettled(p, didOpenUrl) ==
    /\ calls[p].pc = "awaitOpen"
    /\ IF ~openSsoPortalLink(didOpenUrl).ok
       THEN ThenClose(p, Threw(openSsoPortalLink(didOpenUrl).error), <<>>)
       ELSE IF ~openSsoPortalLink(didOpenUrl).value
       THEN ThenClose(p, Threw(UserCancelledErr), <<>>)
       ELSE calls' = [calls EXCEPT
                ![p].pc = "awaitRedirect",
                ![p].log = Append(@, Call("server.waitForAuthorization", "", None))]
    /\ UNCHANGED <<serverVars, providerVarsButCalls>>

\* authorize(): `await authServer.waitForAuthorization()` got the outcome;
\* the await has no timeout, only the settled future wakes it.
redirectSettledOrTimedOut(p) ==
    /\ calls[p].pc = "awaitRedirect"
    /\ IF server[p].promise.status = "resolved"
       THEN calls' = [calls EXCEPT
                ![p].pc = "awaitExchange",
                ![p].code = server[p].promise.value,
                ![p].tokenRequest = TokenRequest(p, server[p].promise.value),
                ![p].log = Append(@, Call("oidc.createToken", authorizationGrantType,
                                          calls[p].registration))]
       ELSE ThenClose(p, Threw(ToolkitErr(server[p].promise.error)), <<>>)
    /\ UNCHANGED <<serverVars, providerVarsButCalls>>

redirectSettledWhateverOutcome(p) ==
    /\ calls[p].pc = "awaitRedirect"
    /\ server[p].promise.status # "pending"
    /\ calls' = [calls EXCEPT
            ![p].pc = "awaitExchange",
            ![p].code = server[p].promise.value,
            ![p].tokenRequest = TokenRequest(p, server[p].promise.value),
            ![p].log = Append(@, Call("oidc.createToken", authorizationGrantType,
                                      calls[p].registration))]
    /\ UNCHANGED <<serverVars, providerVarsButCalls>>

redirectSettled(p) ==
    /\ calls[p].pc = "awaitRedirect"
    /\ server[p].promise.status # "pending"
    /\ IF server[p].promise.status = "resolved"
       THEN calls' = [calls EXCEPT
                ![p].pc = "awaitExchange",
                ![p].code = server[p].promise.value,
                ![p].tokenRequest = TokenRequest(p, server[p].promise.value),
                ![p].log = Append(@, Call("oidc.createToken", authorizationGrantType,
                                          calls[p].registration))]
       ELSE ThenClose(p, Threw(ToolkitErr(server[p].promise.error)), <<>>)
    /\ UNCHANGED <<serverVars, providerVarsButCalls>>

\* authorize(): the code exchange settled.
exchangeResponded(p, outcome, lifetime, refreshToken) ==
    /\ calls[p].pc = "awaitExchange"
    /\ IF outcome = "ok"
       THEN /\ issued' = issued + 1
            /\ calls' = [calls EXCEPT
                    ![p].pc = "awaitClose",
                    ![p].access = Some(formatToken(
                        Token(issued + 1, now + lifetime, refreshToken),
                        ValueOf(calls[p].registration), calls[p].profile)),
                    ![p].outcome = Returned(None),
                    ![p].log = Append(@, Call("server.close", "", None))]
       ELSE /\ ThenClose(p, Threw(OidcErr(outcome, "oidc.createToken")), <<>>)
            /\ UNCHANGED issued
    /\ UNCHANGED <<serverVars, now, cacheVars, registered, begun>>

\* The error authorize() ends with: a rejected close() replaces what the
\* try block ended with.
AfterClose(outcome, closed) ==
    IF closed.ok THEN outcome ELSE Threw(Err("toolkit", "", closed.error))

\* runFlow(): its catch clears the cached registration before re-throwing.
RunFlowClearsNever(e) == FALSE

RunFlowClears(e) == isServiceClientFault(e)

\* authorize(): close() settled; then the catch of runFlow(), or
\* createToken() up to `await this.cache.token.save(identity, access)`.
closeSettled(p) ==
    /\ calls[p].pc = "awaitClose"
    /\ close(p)
    /\ LET outcome == AfterClose(calls[p].outcome, srvResult'[p]) IN
       IF outcome.status = "returned"
       THEN calls' = [calls EXCEPT
                ![p].pc = "awaitTokenSave",
                ![p].log = Append(@, Call("token.save", "", calls[p].registration))]
       ELSE IF RunFlowClears(outcome.error)
       THEN calls' = [calls EXCEPT
                ![p].pc = "awaitFaultClear", ![p].outcome = outcome,
                ![p].log = Append(@, Call("registration.clear", "client fault", None))]
       ELSE Finish(p, <<>>, outcome)
    /\ UNCHANGED <<served, firstCallback, providerVarsButCalls>>

\* runFlow(): the registration clear of the catch block settled.
faultCleared(p, ok) ==
    /\ calls[p].pc = "awaitFaultClear"
    /\ regCache' = CacheClear(regCache, RegKey(p), ok)
    /\ IF ok
       THEN Finish(p, <<>>, calls[p].outcome)
       ELSE Finish(p, <<>>, Threw(CacheErr("registration.clear")))
    /\ UNCHANGED <<serverVars, now, tokenCache, sessionDates, issued, registered, begun>>

\* setSessionCreationDate(id, date): the map handed to memento.update,
\* { ...memento.get(sessionCreationDateKey), [id]: date.getTime() }
setSessionCreationDateAlone(dates, id, date) ==
    [k \in DOMAIN dates |-> IF k = id THEN Some(date) ELSE None]

setSessionCreationDate(dates, id, date) == [dates EXCEPT ![id] = Some(date)]

\* createToken(): the token save settled; up to the memento update of
\* setSessionCreationDate(this.tokenCacheKey, new Date()).
tokenSaved(p, ok) ==
    /\ calls[p].pc = "awaitTokenSave"
    /\ tokenCache' = CacheSave(tokenCache, Key(p), ValueOf(calls[p].access), ok)
    /\ IF ok
       THEN calls' = [calls EXCEPT
                ![p].pc = "awaitSessionDate",
                ![p].newDates = setSessionCreationDate(sessionDates, Key(p), now),
                ![p].log = Append(@, Call("globalState.update", "", None))]
       ELSE Finish(p, <<>>, Threw(CacheErr("token.save")))
    /\ UNCHANGED <<serverVars, now, regCache, sessionDates, issued, registered, begun>>

\* createToken(): the memento update settled, its failure only logged;
\* return { ...access.token, identity }.
WithIdentity(token, identity) == [token EXCEPT !.identity = Present(identity)]

sessionDateSettled(p, ok) ==
    /\ calls[p].pc = "awaitSessionDate"
    /\ sessionDates' = IF ok THEN calls[p].newDates ELSE sessionDates
    /\ Finish(p, <<>>,
              Returned(Some(WithIdentity(ValueOf(calls[p].access).token, Key(p)))))
    /\ UNCHANGED <<serverVars, now, tokenCache, regCache, issued, registered, begun>>

\* The browser (or anything else on the machine) sends a request to the
\* listener of process p.
FlowRequest(path, error, description, code, state) ==
    [hasUrl |-> TRUE, path |-> path, error |-> error, error_description |-> description,
     code |-> code, state |-> state]

FlowRequests(p) ==
    {FlowRequest("/", Absent, Absent, Present("XYZ"), Present(server[p].state)),
     FlowRequest("/", Absent, Absent, Present("XYZ"), Present("bad")),
     FlowRequest("/", Absent, Absent, Absent, Present(server[p].state)),
     FlowRequest("/", Absent, Absent, Present("XYZ"), Absent),
     FlowRequest("/", Present("foo"), Present("bar"), Absent, Absent),
     FlowRequest("/other", Absent, Absent, Present("XYZ"), Present(server[p].state))}

redirectArrives(p, req) ==
    /\ calls[p].pc \in {"awaitOpen", "awaitRedirect"}
    /\ Len(served[p]) < MaxRedirects
    /\ handleRequest(p, req)
    /\ UNCHANGED <<srvResult, providerVars>>

\* ------------------------------------------------------- initial states

\* The listeners before any is constructed by a flow.
NoServers ==
    /\ server = [s \in Servers |-> NewServer("")]
    /\ served = [s \in Servers |-> <<>>]
    /\ firstCallback = [s \in Servers |-> [seen |-> FALSE, req |-> NoRequest]]
    /\ srvResult = [s \in Servers |-> NoResult]

\* No provider operation runs or has run, on empty caches.
NoProvider ==
    /\ now = 0
    /\ tokenCache = [k \in TokenKeys |-> None]
    /\ regCache = [k \in RegistrationKeys |-> None]
    /\ sessionDates = [k \in TokenKeys |-> None]
    /\ calls = [p \in Procs |-> IdleCall]
    /\ issued = 0
    /\ registered = 0
    /\ begun = 0

\* What an earlier session (of this or of an older version, whose
\* registrations have no issuerUrl) may have left in the caches: a
\* registration expired or not, one without issuerUrl; a token record under
\* the Builder ID key, its token expired or not, with or without a refresh
\* token, with or without a paired registration.
CachedRegistrations ==
    {Registration(0, expirationBufferMs, BuilderIdProfile.scopes, Present(builderIdStartUrl)),
     Registration(0, expirationBufferMs + 1, BuilderIdProfile.scopes, Present(builderIdStartUrl)),
     Registration(0, expirationBufferMs + 1, BuilderIdProfile.scopes, Absent)}

CachedTokens ==
    {Token(0, expirationBufferMs, Absent),
     Token(0, expirationBufferMs, Present("refresh-0")),
     Token(0, expirationBufferMs + 1, Present("refresh-0"))}

CachedRecords ==
    {[token |-> token, registration |-> registration,
      region |-> BuilderIdProfile.region, startUrl |-> BuilderIdProfile.startUrl] :
        token \in CachedTokens,
        registration \in {None} \cup {Some(r) : r \in CachedRegistrations}}

\* -------------------------------------- the listener driven on its own

ServerInit ==
    /\ \E st \in ExpectedStates : server = [s \in Servers |-> NewServer(st)]
    /\ served = [s \in Servers |-> <<>>]
    /\ firstCallback = [s \in Servers |-> [seen |-> FALSE, req |-> NoRequest]]
    /\ srvResult = [s \in Servers |-> NoResult]
    /\ NoProvider

ServerStart ==
    \E s \in TestServers, bindOk \in BOOLEAN :
        /\ start(s, bindOk)
        /\ UNCHANGED <<served, firstCallback, providerVars>>

ServerRequest ==
    \E s \in TestServers, req \in Requests :
        /\ Len(served[s]) < MaxRequests
        /\ handleRequest(s, req)
        /\ UNCHANGED <<srvResult, providerVars>>

ServerClose ==
    \E s \in TestServers :
        /\ close(s)
        /\ UNCHANGED <<served, firstCallback, providerVars>>

ServerNext == ServerStart \/ ServerRequest \/ ServerClose

ServerSpec == ServerInit /\ [][ServerNext]_vars

\* ------------------------------------------- the expiry test on its own

\* expiresAt values tried: from 0 to MaxSkew ms, and up to MaxSkew ms on
\* either side of the buffer's end.
MaxSkew == 30

ExpiresAtValues ==
    (0..MaxSkew) \cup ((expirationBufferMs - MaxSkew)..(expirationBufferMs + MaxSkew))

\* isExpired(expirable) called at the current clock, with its answer kept.
isExpiredCalled(p, expiresAt) ==
    /\ calls[p].pc = "idle"
    /\ calls' = [calls EXCEPT ![p] =
            [IdleCall EXCEPT !.op = "isExpired", !.pc = "done",
                             !.expirable = Some([expiresAt |-> expiresAt]),
                             !.answer = Some(isExpired([expiresAt |-> expiresAt], now))]]
    /\ UNCHANGED <<serverVars, now, cacheVars, issued, registered, begun>>

ExpiryInit == NoServers /\ NoProvider

ExpiryCall == \E p \in SeqProcs, expiresAt \in ExpiresAtValues : isExpiredCalled(p, expiresAt)

ExpiryNext == ExpiryCall \/ Tick

ExpirySpec == ExpiryInit /\ [][ExpiryNext]_vars

\* ------------------------------- provider operations, one after the other

Init ==
    /\ NoServers
    /\ now = 0
    /\ tokenCache \in {[k \in TokenKeys |-> IF k = tokenCacheKey(BuilderIdProfile) THEN c ELSE None] :
                          c \in {None} \cup {Some(r) : r \in CachedRecords}}
    /\ regCache \in [RegistrationKeys -> {None} \cup {Some(r) : r \in CachedRegistrations}]
    /\ sessionDates = [k \in TokenKeys |-> None]
    /\ calls = [p \in Procs |-> IdleCall]
    /\ issued = 0
    /\ registered = 0
    /\ begun = 0

RefreshTokens == {Absent, Present("refresh-n")}

Begin(p) ==
    \E profile \in Profiles :
        \/ getToken(p, profile)
        \/ createToken(p, profile)
        \/ invalidate(p, profile)

\* The next call on a provider whose createToken() returned.
Again(p) == getTokenAfterCreateToken(p)

CacheSettles(p) ==
    \E ok \in BOOLEAN :
        \/ getTokenLoaded(p, ok)
        \/ refreshTokenSaved(p, ok)
        \/ refreshTokenCleared(p, ok)
        \/ \E which \in {"token", "registration"} : clearSettled(p, which, ok)
        \/ registrationLoaded(p, ok)
        \/ loadOrLoaded(p, ok)
        \/ registrationSaved(p, ok)
        \/ faultCleared(p, ok)
        \/ tokenSaved(p, ok)
        \/ sessionDateSettled(p, ok)

OidcSettles(p) ==
    \E outcome \in OidcOutcomes, lifetime \in Lifetimes, refreshToken \in RefreshTokens :
        \/ refreshTokenResponded(p, outcome, lifetime, refreshToken)
        \/ registerClientResponded(p, outcome, lifetime)
        \/ authorizeResponded(p, outcome)
        \/ exchangeResponded(p, outcome, lifetime, refreshToken)

ListenerSettles(p) ==
    \/ \E bindOk \in BOOLEAN : startSettled(p, bindOk)
    \/ \E didOpenUrl \in BOOLEAN : openSettled(p, didOpenUrl)
    \/ \E req \in FlowRequests(p) : redirectArrives(p, req)
    \/ redirectSettled(p)
    \/ closeSettled(p)

Step(p) == CacheSettles(p) \/ OidcSettles(p) \/ ListenerSettles(p)

Next == (\E p \in SeqProcs : Begin(p) \/ Again(p) \/ Step(p)) \/ Tick

Spec == Init /\ [][Next]_vars

\* ------------------------------------------ createToken() on its own

\* The session creation dates earlier sessions left behind.
EarlierDates == [TokenKeys -> {None, Some(0)}]

CreateTokenInit ==
    /\ NoServers
    /\ now = 0
    /\ tokenCache = [k \in TokenKeys |-> None]
    /\ regCache \in {[k \in RegistrationKeys |->
                        IF k = registrationCacheKey(BuilderIdProfile) THEN c ELSE None] :
                     c \in {None,
                            Some(Registration(0, expirationBufferMs + 1,
                                              BuilderIdProfile.scopes,
                                              Present(builderIdStartUrl)))}}
    /\ sessionDates \in EarlierDates
    /\ calls = [p \in Procs |-> IdleCall]
    /\ issued = 0
    /\ registered = 0
    /\ begun = 0

CreateTokenBegin(p) == \E profile \in Profiles : createToken(p, profile)

CreateTokenCacheSettles(p) ==
    \E ok \in BOOLEAN :
        \/ \E which \in {"token", "registration"} : clearSettled(p, which, ok)
        \/ registrationLoaded(p, ok)
        \/ loadOrLoaded(p, ok)
        \/ registrationSaved(p, ok)
        \/ faultCleared(p, ok)
        \/ tokenSaved(p, ok)
        \/ sessionDateSettled(p, ok)

CreateTokenOidcSettles(p) ==
    \E outcome \in OidcOutcomes, lifetime \in Lifetimes, refreshToken \in RefreshTokens :
        \/ registerClientResponded(p, outcome, lifetime)
        \/ authorizeResponded(p, outcome)
        \/ exchangeResponded(p, outcome, lifetime, refreshToken)

CreateTokenListenerSettles(p) ==
    \/ \E bindOk \in BOOLEAN : startSettled(p, bindOk)
    \/ \E didOpenUrl \in BOOLEAN : openSettled(p, didOpenUrl)
    \/ redirectSettled(p)
    \/ closeSettled(p)

\* The steps createToken() takes by itself once its awaited calls settle.
CreateTokenStep(p) ==
    \/ CreateTokenCacheSettles(p)
    \/ CreateTokenOidcSettles(p)
    \/ CreateTokenListenerSettles(p)

\* A request of the browser reaches the listener.
BrowserRequest(p) == \E req \in FlowRequests(p) : redirectArrives(p, req)

CreateTokenNext ==
    \/ \E p \in SeqProcs : CreateTokenBegin(p) \/ CreateTokenStep(p) \/ BrowserRequest(p)
    \/ Tick

CreateTokenSpec == CreateTokenInit /\ [][CreateTokenNext]_vars

\* Every awaited call of createToken() settles and its continuation runs;
\* nothing makes the browser send a request.
CreateTokenFair == \A p \in SeqProcs : WF_vars(CreateTokenStep(p))

CreateTokenLive == CreateTokenSpec /\ CreateTokenFair

\* ------------------- getToken() and createToken() running concurrently

\* One provider call refreshes while another one signs in, both for the
\* Builder ID profile; they interleave at their awaits.
Getter == 1

Creator == 2

\* The cached token is expired and refreshable, its registration valid.
ExpiredRefreshable ==
    [token |-> Token(0, expirationBufferMs, Present("refresh-0")),
     registration |-> Some(Registration(0, expirationBufferMs + 1,
                                        BuilderIdProfile.scopes,
                                        Present(builderIdStartUrl))),
     region |-> BuilderIdProfile.region, startUrl |-> BuilderIdProfile.startUrl]

ConcurrentInit ==
    /\ NoServers
    /\ now = 0
    /\ tokenCache = [k \in TokenKeys |->
                        IF k = tokenCacheKey(BuilderIdProfile)
                        THEN Some(ExpiredRefreshable) ELSE None]
    /\ regCache = [k \in RegistrationKeys |->
                      IF k = registrationCacheKey(BuilderIdProfile)
                      THEN ExpiredRefreshable.registration ELSE None]
    /\ sessionDates = [k \in TokenKeys |-> None]
    /\ calls = [p \in Procs |-> IdleCall]
    /\ issued = 0
    /\ registered = 0
    /\ begun = 0

GetTokenStep(p) ==
    \/ \E ok \in BOOLEAN :
          \/ getTokenLoaded(p, ok)
          \/ refreshTokenSaved(p, ok)
          \/ refreshTokenCleared(p, ok)
          \/ \E which \in {"token", "registration"} : clearSettled(p, which, ok)
    \/ \E outcome \in OidcOutcomes, lifetime \in Lifetimes, refreshToken \in RefreshTokens :
          refreshTokenResponded(p, outcome, lifetime, refreshToken)

ConcurrentNext ==
    \/ getToken(Getter, BuilderIdProfile)
    \/ GetTokenStep(Getter)
    \/ createToken(Creator, BuilderIdProfile)
    \/ CreateTokenStep(Creator)
    \/ BrowserRequest(Creator)
    \/ Tick

ConcurrentSpec == ConcurrentInit /\ [][ConcurrentNext]_vars

\* ------------------------------------ two createToken() at the same time

\* Two sign-ins for the Builder ID profile run at once (two providers, or
\* two calls on one), each with its own listener, on a cached registration.
Flows == {Getter, Creator}

TwoFlowsInit ==
    /\ NoServers
    /\ now = 0
    /\ tokenCache = [k \in TokenKeys |-> None]
    /\ regCache = [k \in RegistrationKeys |->
                      IF k = registrationCacheKey(BuilderIdProfile)
                      THEN ExpiredRefreshable.registration ELSE None]
    /\ sessionDates = [k \in TokenKeys |-> None]
    /\ calls = [p \in Procs |-> IdleCall]
    /\ issued = 0
    /\ registered = 0
    /\ begun = 0

\* The awaits of createToken() settle; the caches work, OIDC answers or
\* is unreachable, and only these flows bind the port.
TwoFlowsStep(p) ==
    \/ registrationLoaded(p, TRUE)
    \/ loadOrLoaded(p, TRUE)
    \/ startSettled(p, TRUE)
    \/ \E outcome \in {"ok", "network"} : authorizeResponded(p, outcome)
    \/ \E didOpenUrl \in BOOLEAN : openSettled(p, didOpenUrl)
    \/ redirectSettled(p)
    \/ \E outcome \in {"ok", "network"} :
          exchangeResponded(p, outcome, expirationBufferMs + 1, Absent)
    \/ closeSettled(p)
    \/ tokenSaved(p, TRUE)
    \/ sessionDateSettled(p, TRUE)

TwoFlowsNext ==
    \E p \in Flows :
        \/ createToken(p, BuilderIdProfile)
        \/ TwoFlowsStep(p)
        \/ BrowserRequest(p)

TwoFlowsSpec == TwoFlowsInit /\ [][TwoFlowsNext]_vars

\* ----------------------- two profiles of equal region and scopes, in turn

\* Process 1 holds a provider of the Builder ID profile, process 2 one of
\* the IAM Identity Center profile; their operations do not overlap.
SharedProfile == <<BuilderIdProfile, IdcProfile>>

SharedProcs == DOMAIN SharedProfile

\* What an earlier session of the Builder ID profile left behind.
EarlierRegistration ==
    Registration(0, expirationBufferMs + 1, BuilderIdProfile.scopes,
                 Present(builderIdStartUrl))

EarlierRecord(profile) ==
    formatToken(Token(0, expirationBufferMs + 1, Absent), EarlierRegistration, profile)

SharedInit ==
    /\ NoServers
    /\ now = 0
    /\ tokenCache \in
          {[k \in TokenKeys |-> None],
           [k \in TokenKeys |->
               IF k = tokenCacheKey(BuilderIdProfile) THEN Some(EarlierRecord(BuilderIdProfile))
               ELSE IF k = tokenCacheKey(IdcProfile) THEN Some(EarlierRecord(IdcProfile))
               ELSE None]}
    /\ regCache \in {[k \in RegistrationKeys |-> None],
                     [k \in RegistrationKeys |->
                         IF k = registrationCacheKey(BuilderIdProfile)
                         THEN Some(EarlierRegistration) ELSE None]}
    /\ sessionDates = [k \in TokenKeys |-> None]
    /\ calls = [p \in Procs |-> IdleCall]
    /\ issued = 0
    /\ registered = 0
    /\ begun = 0

SharedBegin(p) ==
    /\ \A q \in SharedProcs \ {p} : calls[q].pc \in {"idle", "done"}
    /\ \/ createToken(p, SharedProfile[p])
       \/ invalidate(p, SharedProfile[p])

\* The awaits settle: a clear call may fail, OIDC answers or reports a
\* client fault to the code exchange, the browser opens and is redirected
\* with the code.
SharedStep(p) ==
    \/ registrationLoaded(p, TRUE)
    \/ \E ok \in BOOLEAN, which \in {"token", "registration"} : clearSettled(p, which, ok)
    \/ loadOrLoaded(p, TRUE)
    \/ registerClientResponded(p, "ok", expirationBufferMs + 1)
    \/ registrationSaved(p, TRUE)
    \/ startSettled(p, TRUE)
    \/ authorizeResponded(p, "ok")
    \/ openSettled(p, TRUE)
    \/ redirectSettled(p)
    \/ \E outcome \in {"ok", "clientFault"} :
          exchangeResponded(p, outcome, expirationBufferMs + 1, Absent)
    \/ closeSettled(p)
    \/ faultCleared(p, TRUE)
    \/ tokenSaved(p, TRUE)
    \/ sessionDateSettled(p, TRUE)

Redirected(p) ==
    redirectArrives(p, FlowRequest("/", Absent, Absent, Present("XYZ"),
                                   Present(server[p].state)))

SharedNext ==
    \/ \E p \in SharedProcs : SharedBegin(p) \/ SharedStep(p) \/ Redirected(p)
    \/ Tick

SharedSpec == SharedInit /\ [][SharedNext]_vars

\* ------------------------------------------- getToken() of either profile

\* Both profiles have an expired token; the one of the Builder ID profile
\* can be refreshed, the other one perhaps.
RefreshInit ==
    /\ NoServers
    /\ now = 0
    /\ \E refreshToken \in RefreshTokens :
          tokenCache = [k \in TokenKeys |->
                          IF k = tokenCacheKey(BuilderIdProfile)
                          THEN Some(ExpiredRefreshable)
                          ELSE IF k = tokenCacheKey(IdcProfile)
                          THEN Some([ExpiredRefreshable EXCEPT
                                        !.startUrl = IdcProfile.startUrl,
                                        !.token.refreshToken = refreshToken])
                          ELSE None]
    /\ regCache = [k \in RegistrationKeys |->
                      IF k = registrationCacheKey(BuilderIdProfile)
                      THEN ExpiredRefreshable.registration ELSE None]
    /\ sessionDates = [k \in TokenKeys |-> None]
    /\ calls = [p \in Procs |-> IdleCall]
    /\ issued = 0
    /\ registered = 0
    /\ begun = 0

RefreshNext ==
    \/ \E p \in SeqProcs :
          \/ \E profile \in Profiles : getToken(p, profile)
          \/ GetTokenStep(p)
    \/ Tick

RefreshSpec == RefreshInit /\ [][RefreshNext]_vars

\* ---------------------------- CawsClient.startWorkspaceWithProgress()

\* The status of a development workspace, and a read of it that fails.
WorkspaceStatuses == {"RUNNING", "STARTING", "STOPPED", "STOPPING", "FAILED"}

ReadOutcomes == WorkspaceStatuses \cup {"error"}

\* The `status` argument.
RequestedStatuses == {"RUNNING", "STOPPED"}

WorkspaceReturned(status) == [status |-> "returned", code |-> "", workspace |-> status]

WorkspaceThrew(code) == [status |-> "threw", code |-> code, workspace |-> ""]

\* startWorkspaceWithProgress(args, status, timeout) up to the initial
\* `await this.getDevelopmentWorkspace(args)`.
startWorkspaceWithProgress(p, status) ==
    /\ calls[p].workspace.pc = "idle"
    /\ calls' = [calls EXCEPT ![p].workspace =
            [NoWorkspaceCall EXCEPT !.pc = "awaitFirstRead", !.requested = status]]
    /\ UNCHANGED <<serverVars, providerVarsButCalls>>

\* The initial read settled: the "debounce" return, or on to the polling
\* with lastStatus undefined after a failed read.
firstReadSettled(p, read) ==
    /\ calls[p].workspace.pc = "awaitFirstRead"
    /\ calls' = [calls EXCEPT ![p].workspace =
            IF read = "error"
            THEN [@ EXCEPT !.pc = "polling", !.lastStatus = "",
                           !.observed = Append(@, read)]
            ELSE IF @.requested = "RUNNING" /\ read = "RUNNING"
            THEN [@ EXCEPT !.pc = "done", !.lastStatus = read,
                           !.observed = Append(@, read),
                           !.result = WorkspaceReturned(read)]
            ELSE [@ EXCEPT !.pc = "polling", !.lastStatus = read,
                           !.observed = Append(@, read)]]
    /\ UNCHANGED <<serverVars, providerVarsButCalls>>

\* What one poll does with the status it read, given lastStatus.
PollVerdictStartFirst(lastStatus, status) ==
    IF status = "STOPPED" THEN "start"
    ELSE IF lastStatus = "STARTING" /\ status = "STOPPING" THEN "BadWorkspaceState"
    ELSE IF status = "FAILED" THEN "FailedWorkspace"
    ELSE IF status = "RUNNING" THEN "return"
    ELSE "wait"

PollVerdict(lastStatus, status) ==
    IF lastStatus = "STARTING" /\ (status = "STOPPED" \/ status = "STOPPING")
    THEN "BadWorkspaceState"
    ELSE IF status = "STOPPED" THEN "start"
    ELSE IF status = "STOPPING" THEN "wait"
    ELSE IF status = "FAILED" THEN "FailedWorkspace"
    ELSE IF status = "RUNNING" THEN "return"
    ELSE "wait"

\* One call of the function handed to waitUntil, up to its return, its
\* throw or `await this.startDevelopmentWorkspace(args)`; an error it
\* throws rejects the polling and with it the call.
pollSettled(p, read) ==
    /\ calls[p].workspace.pc = "polling"
    /\ Len(calls[p].workspace.observed) <= MaxPolls
    /\ calls' = [calls EXCEPT ![p].workspace =
            LET seen == [@ EXCEPT !.observed = Append(@, read)]
                verdict == PollVerdict(@.lastStatus, read)
            IN IF read = "error"
               THEN [seen EXCEPT !.pc = "done", !.result = WorkspaceThrew("ReadFailed")]
               ELSE IF verdict \in {"BadWorkspaceState", "FailedWorkspace"}
               THEN [seen EXCEPT !.pc = "done", !.result = WorkspaceThrew(verdict)]
               ELSE IF verdict = "start"
               THEN [seen EXCEPT !.pc = "awaitStart",
                                 !.starts = @ \cup {Len(seen.observed)}]
               ELSE IF verdict = "return"
               THEN [seen EXCEPT !.pc = "done", !.lastStatus = read,
                                 !.result = WorkspaceReturned(read)]
               ELSE [seen EXCEPT !.lastStatus = read]]
    /\ UNCHANGED <<serverVars, providerVarsButCalls>>

\* `await this.startDevelopmentWorkspace(args)` of a poll settled.
workspaceStartSettled(p, ok) ==
    /\ calls[p].workspace.pc = "awaitStart"
    /\ calls' = [calls EXCEPT ![p].workspace =
            IF ok THEN [@ EXCEPT !.pc = "polling", !.lastStatus = "STOPPED"]
            ELSE [@ EXCEPT !.pc = "done", !.result = WorkspaceThrew("StartFailed")]]
    /\ UNCHANGED <<serverVars, providerVarsButCalls>>

\* The timeout completes: waitTimeout gives undefined and the call throws.
timeoutCompleted(p) ==
    /\ calls[p].workspace.pc \in {"polling", "awaitStart"}
    /\ calls' = [calls EXCEPT ![p].workspace =
            [@ EXCEPT !.pc = "done", !.result = WorkspaceThrew("Timeout")]]
    /\ UNCHANGED <<serverVars, providerVarsButCalls>>

WorkspaceInit == NoServers /\ NoProvider

WorkspaceNext ==
    \E p \in SeqProcs :
        \/ \E status \in RequestedStatuses : startWorkspaceWithProgress(p, status)
        \/ \E read \in ReadOutcomes : firstReadSettled(p, read)
        \/ \E read \in ReadOutcomes : pollSettled(p, read)
        \/ \E ok \in BOOLEAN : workspaceStartSettled(p, ok)
        \/ timeoutCompleted(p)

WorkspaceSpec == WorkspaceInit /\ [][WorkspaceNext]_vars

\* ------------------------------ CawsClient: setCredentials, verifySession

\* User ids a caller may hand to setCredentials() and identities the
\* service returns.
UserIds == {"", "A", "B"}

Identities == {"A", "B"}

\* The `id` argument of setCredentials(): left out, a string, or the
\* UserDetails of a user.
IdArguments ==
    {NoId} \cup {[kind |-> "string", value |-> id] : id \in UserIds}
           \cup {[kind |-> "UserDetails", value |-> id] : id \in Identities}

\* `this.userId && this.userId !== resp.identity`
IdentityNeverMismatches(userId, identity) == FALSE

IdentityMismatches(userId, identity) ==
    /\ userId # None
    /\ userId[1] # ""
    /\ userId[1] # identity

\* The client between two calls.
CawsIdle(p) == calls[p].client.pc \in {"idle", "done"}

\* verifySession() on entry, up to `await this.bearerTokenProvider()` in
\* call(), which throws NotLoggedIn when no provider is set.
EnterVerifySession(c) ==
    LET entered == [c EXCEPT !.entry = [bearerTokenProvider |-> c.bearerTokenProvider,
                                        userId |-> c.userId,
                                        userDetails |-> c.userDetails],
                             !.requests = <<>>, !.identity = None,
                             !.result = "none"]
    IN IF ~c.bearerTokenProvider
       THEN [entered EXCEPT !.pc = "done", !.result = "NotLoggedIn"]
       ELSE [entered EXCEPT !.pc = "awaitBearerToken"]

\* setCredentials(bearerTokenProvider, id) up to
\* `await createCawsClient(...)`.
setCredentials(p, id) ==
    /\ CawsIdle(p)
    /\ calls' = [calls EXCEPT ![p].client =
            [@ EXCEPT !.bearerTokenProvider = TRUE, !.op = "setCredentials",
                      !.id = id, !.pc = "awaitClient", !.requests = <<>>,
                      !.identity = None, !.result = "none"]]
    /\ UNCHANGED <<serverVars, providerVarsButCalls>>

\* createCawsClient() settled: setCredentials() stores a string id in
\* userId and anything else, an omitted id included, in userDetails, then
\* calls verifySession().
clientCreated(p, ok) ==
    /\ calls[p].client.pc = "awaitClient"
    /\ calls' = [calls EXCEPT ![p].client =
            LET id == calls[p].client.id
            IN IF ~ok THEN [@ EXCEPT !.pc = "done", !.result = "ClientFailed"]
               ELSE IF id.kind = "string"
               THEN EnterVerifySession([@ EXCEPT !.userId = Some(id.value)])
               ELSE EnterVerifySession([@ EXCEPT !.userDetails =
                        IF id.kind = "undefined" THEN None ELSE Some(id.value)])]
    /\ UNCHANGED <<serverVars, providerVarsButCalls>>

\* verifySession() called by itself.
verifySession(p) ==
    /\ CawsIdle(p)
    /\ calls' = [calls EXCEPT ![p].client =
            EnterVerifySession([@ EXCEPT !.op = "verifySession", !.id = NoId])]
    /\ UNCHANGED <<serverVars, providerVarsButCalls>>

\* The bearer-token provider settled in call(): the request is sent with
\* the token, or the call fails with the provider's error.
bearerTokenSettled(p, ok) ==
    /\ calls[p].client.pc \in {"awaitBearerToken", "awaitDetailsToken"}
    /\ calls' = [calls EXCEPT ![p].client =
            IF ~ok THEN [@ EXCEPT !.pc = "done", !.result = "ProviderFailed"]
            ELSE IF @.pc = "awaitBearerToken"
            THEN [@ EXCEPT !.pc = "awaitVerifySession",
                           !.requests = Append(@, "verifySession")]
            ELSE [@ EXCEPT !.pc = "awaitGetUserDetails",
                           !.requests = Append(@, "getUserDetails")]]
    /\ UNCHANGED <<serverVars, providerVarsButCalls>>

\* The verifySession request settled: a failed request or a response
\* without identity throws; a mismatch with the stored id throws; else the
\* identity is stored and the details are fetched when none are stored.
verifySessionResponded(p, response) ==
    /\ calls[p].client.pc = "awaitVerifySession"
    /\ calls' = [calls EXCEPT ![p].client =
            IF response = None
            THEN [@ EXCEPT !.pc = "done", !.result = "RequestFailed"]
            ELSE LET identity == response[1]
                     got == [@ EXCEPT !.identity = response]
                 IN IF IdentityMismatches(@.userId, identity)
                    THEN [got EXCEPT !.pc = "done", !.result = "IdentityMismatch"]
                    ELSE IF @.userDetails = None
                    THEN [got EXCEPT !.userId = response, !.pc = "awaitDetailsToken"]
                    ELSE [got EXCEPT !.userId = response, !.pc = "done",
                                     !.result = "returned"]]
    /\ UNCHANGED <<serverVars, providerVarsButCalls>>

\* The getUserDetails request settled.
getUserDetailsResponded(p, ok) ==
    /\ calls[p].client.pc = "awaitGetUserDetails"
    /\ calls' = [calls EXCEPT ![p].client =
            IF ~ok THEN [@ EXCEPT !.pc = "done", !.result = "RequestFailed"]
            ELSE [@ EXCEPT !.userDetails = calls[p].client.userId,
                           !.pc = "done", !.result = "returned"]]
    /\ UNCHANGED <<serverVars, providerVarsButCalls>>

\* A client constructed with or without a bearer-token provider.
CawsInit ==
    /\ NoServers
    /\ now = 0
    /\ tokenCache = [k \in TokenKeys |-> None]
    /\ regCache = [k \in RegistrationKeys |-> None]
    /\ sessionDates = [k \in TokenKeys |-> None]
    /\ \E withProvider \in BOOLEAN :
         calls = [p \in Procs |->
                    [IdleCall EXCEPT !.client = NewCawsClient(withProvider)]]
    /\ issued = 0
    /\ registered = 0
    /\ begun = 0

CawsNext ==
    \E p \in SeqProcs :
        \/ \E id \in IdArguments : setCredentials(p, id)
        \/ \E ok \in BOOLEAN : clientCreated(p, ok)
        \/ verifySession(p)
        \/ \E ok \in BOOLEAN : bearerTokenSettled(p, ok)
        \/ \E response \in {None} \cup {Some(i) : i \in Identities} :
                verifySessionResponded(p, response)
        \/ \E ok \in BOOLEAN : getUserDetailsResponded(p, ok)

CawsSpec == CawsInit /\ [][CawsNext]_vars

\* ------------------------------------------------ claims on the listener

CallbackIndexes(s) == {i \in DOMAIN served[s] : served[s][i].callback}

FirstCallbackIndex(s) ==
    CHOOSE i \in CallbackIndexes(s) : \A j \in CallbackIndexes(s) : i <= j

\* C1: the authorization future of an instance settles at most once; its
\* outcome is the outcome of the first request to "/" the instance handled,
\* later requests to "/" never change it, and requests to other paths (or
\* without a url) never settle or change it.
C1_FirstCallbackWins ==
    \A s \in Servers :
        IF CallbackIndexes(s) = {}
        THEN server[s].promise = Pending
        ELSE /\ server[s].promise.status # "pending"
             /\ server[s].promise = served[s][FirstCallbackIndex(s)].asked

C1_Witness ==
    \E s \in Servers :
        /\ Len(served[s]) = 2
        /\ served[s][1].callback /\ served[s][2].callback
        /\ served[s][1].asked # served[s][2].asked
        /\ server[s].promise = served[s][1].asked

BothErrorParams(req) == req.error.has /\ req.error_description.has

\* C2 as stated: without both error parameters the first request to "/" is
\* decided by: code absent -> MissingCodeError; else state absent ->
\* MissingStateError; else state different from the constructor's ->
\* InvalidStateError; else success with the code value.
C2_AbsentOnlyDecides ==
    \A s \in Servers :
        LET req == firstCallback[s].req IN
        (firstCallback[s].seen /\ ~BothErrorParams(req)) =>
            server[s].promise =
                IF ~req.code.has THEN Rejected(MissingCodeError)
                ELSE IF ~req.state.has THEN Rejected(MissingStateError)
                ELSE IF req.state.val # server[s].state THEN Rejected(InvalidStateError)
                ELSE Resolved(req.code.val)

\* C2 amended: the same order of decisions, an empty value counting as a
\* missing one: code absent or empty -> MissingCodeError (also when state is
\* missing too); else state absent or empty -> MissingStateError; else state
\* different from the constructor's -> InvalidStateError; else success with
\* exactly the code value.
C2_AbsentOrEmptyDecides ==
    \A s \in Servers :
        LET req == firstCallback[s].req IN
        (firstCallback[s].seen /\ ~BothErrorParams(req)) =>
            server[s].promise =
                IF ~req.code.has \/ req.code.val = "" THEN Rejected(MissingCodeError)
                ELSE IF ~req.state.has \/ req.state.val = "" THEN Rejected(MissingStateError)
                ELSE IF req.state.val # server[s].state THEN Rejected(InvalidStateError)
                ELSE Resolved(req.code.val)

C2_Witness ==
    \E s \in Servers :
        /\ firstCallback[s].seen
        /\ ~BothErrorParams(firstCallback[s].req)
        /\ firstCallback[s].req.code = Present("XYZ")
        /\ firstCallback[s].req.state = Present("abc")
        /\ server[s].state = "abc"
        /\ server[s].promise = Resolved("XYZ")

\* C3: a first request to "/" with both error and error_description fails
\* the future with AuthError "<error>: <error_description>", whatever code
\* and state it also carries; with only one of the two, the parameter is
\* ignored and the code/state rules decide.
C3_AuthErrorFirst ==
    \A s \in Servers :
        LET req == firstCallback[s].req IN
        firstCallback[s].seen =>
            IF req.error.has /\ req.error_description.has
            THEN /\ server[s].promise.status = "rejected"
                 /\ server[s].promise.error.code = "AuthRedirectError"
                 /\ server[s].promise.error.message =
                        req.error.val \o ": " \o req.error_description.val
            ELSE server[s].promise = handleToken(req, server[s].state)

C3_Witness ==
    \E s \in Servers :
        /\ firstCallback[s].seen
        /\ firstCallback[s].req.error = Present("foo")
        /\ firstCallback[s].req.error_description = Present("bar")
        /\ firstCallback[s].req.code = Present("XYZ")
        /\ firstCallback[s].req.state = Present(server[s].state)
        /\ server[s].promise.error.message = "foo: bar"

\* ------------------------------------------------ claims on getToken()

\* The collaborator calls in the record of an operation.
OidcCalls(p) == {i \in DOMAIN calls[p].log : calls[p].log[i].api \in
                    {"oidc.createToken", "oidc.authorize", "oidc.registerClient"}}

CacheWrites(p) == {i \in DOMAIN calls[p].log : calls[p].log[i].api \in
                    {"token.save", "token.clear", "registration.save", "registration.clear"}}

\* The step in which getToken() of process p takes the result of its load.
GetTokenLoads(p) ==
    /\ calls[p].op = "getToken"
    /\ calls[p].pc = "awaitTokenLoad"
    /\ calls'[p].pc # "awaitTokenLoad"

LoadFailed(p) == calls'[p].result = Threw(CacheErr("token.load"))

\* C4: getToken() on a token cache with no record, or with a record whose
\* token is not expired (now + 60000 < expiresAt), returns nothing,
\* respectively the cached token unchanged, and makes no cache save or
\* clear and no OIDC call.
C4_ServesCacheUntouched ==
    [][\A p \in Procs :
        LET cached == tokenCache[tokenCacheKey(calls[p].profile)] IN
        (/\ GetTokenLoads(p)
         /\ ~LoadFailed(p)
         /\ \/ cached = None
            \/ now + 60000 < cached[1].token.expiresAt)
        => /\ calls'[p].pc = "done"
           /\ calls'[p].result.status = "returned"
           /\ calls'[p].result.token =
                IF cached = None THEN None ELSE Some(cached[1].token)
           /\ OidcCalls(p)' = {}
           /\ CacheWrites(p)' = {}
           /\ calls'[p].log = <<Call("token.load", "", None)>>
           /\ tokenCache' = tokenCache /\ regCache' = regCache]_vars

C4_Witness ==
    \E p \in Procs :
        /\ calls[p].op = "getToken" /\ calls[p].pc = "done"
        /\ calls[p].cachedAtBegin # None
        /\ calls[p].result = Returned(Some(calls[p].cachedAtBegin[1].token))
        /\ tokenCache[tokenCacheKey(calls[p].profile)] = calls[p].cachedAtBegin

\* The loaded record calls for a refresh: token expired, registration
\* present and not expired, refresh token present.
RefreshCase(cached, clock) ==
    /\ cached # None
    /\ clock + 60000 >= cached[1].token.expiresAt
    /\ cached[1].registration # None
    /\ clock + 60000 < cached[1].registration[1].expiresAt
    /\ cached[1].token.refreshToken.has

RefreshCall(registration) == Call("oidc.createToken", "refresh_token", registration)

\* C5: getToken() on an expired token with a paired unexpired registration
\* and a refresh token issues exactly one OIDC createToken call, of grant
\* type refresh_token; when it and the save succeed, the new token is saved
\* under the profile's token cache key paired with the same registration
\* and is what getToken() returns; the registration cache is not written.
C5_RefreshesAndSaves ==
    [][\A p \in Procs :
        LET cached == tokenCache[tokenCacheKey(calls[p].profile)] IN
        /\ (GetTokenLoads(p) /\ ~LoadFailed(p) /\ RefreshCase(cached, now))
            => /\ calls'[p].pc = "awaitRefresh"
               /\ calls'[p].log = <<Call("token.load", "", None),
                                    RefreshCall(cached[1].registration)>>
        /\ (calls[p].op = "getToken" /\ calls[p].pc \in {"awaitRefresh", "awaitRefreshSave", "awaitRefreshClear"})
            => /\ Cardinality(OidcCalls(p)') = 1
               /\ regCache' = regCache
               /\ \A i \in DOMAIN calls'[p].log :
                    calls'[p].log[i].api \notin {"registration.save", "registration.clear"}
        /\ (calls[p].op = "getToken" /\ calls[p].pc = "awaitRefresh"
                /\ calls'[p].pc = "awaitRefreshSave")
            => /\ calls'[p].access[1].token.accessToken = issued'
               /\ issued' = issued + 1
        /\ (calls[p].op = "getToken" /\ calls[p].pc = "awaitRefreshSave"
                /\ calls'[p].result.status = "returned")
            => /\ calls'[p].result.token = Some(calls[p].access[1].token)
               /\ tokenCache' = [tokenCache EXCEPT ![tokenCacheKey(calls[p].profile)] =
                    Some([token |-> calls[p].access[1].token,
                          registration |-> calls[p].data[1].registration,
                          region |-> calls[p].profile.region,
                          startUrl |-> calls[p].profile.startUrl])]]_vars

C5_Witness ==
    \E p \in Procs :
        /\ calls[p].op = "getToken" /\ calls[p].pc = "done"
        /\ calls[p].result.status = "returned"
        /\ calls[p].result.token # None
        /\ calls[p].result.token[1].accessToken = 1
        /\ tokenCache[tokenCacheKey(calls[p].profile)] # calls[p].cachedAtBegin
        /\ tokenCache[tokenCacheKey(calls[p].profile)][1].token = calls[p].result.token[1]
        /\ tokenCache[tokenCacheKey(calls[p].profile)][1].registration =
                calls[p].cachedAtBegin[1].registration

\* The loaded record can be neither served nor refreshed.
InvalidateCase(cached, clock) ==
    /\ cached # None
    /\ clock + 60000 >= cached[1].token.expiresAt
    /\ \/ cached[1].registration = None
       \/ clock + 60000 >= cached[1].registration[1].expiresAt
       \/ ~cached[1].token.refreshToken.has

\* C6: getToken() on an expired token with no registration, an expired
\* registration or no refresh token issues the clear of the token entry and
\* the clear of the registration entry of this profile (each entry whose
\* clear succeeds is gone), makes no OIDC call and returns nothing.
C6_InvalidatesAndReturnsNothing ==
    [][\A p \in Procs :
        LET cached == tokenCache[tokenCacheKey(calls[p].profile)] IN
        /\ (GetTokenLoads(p) /\ ~LoadFailed(p) /\ InvalidateCase(cached, now))
            => /\ calls'[p].pc = "awaitClears"
               /\ calls'[p].log = <<Call("token.load", "", None),
                                    Call("token.clear", "", None),
                                    Call("registration.clear", "", None)>>
        /\ (calls[p].op = "getToken" /\ calls[p].pc = "awaitClears")
            => /\ OidcCalls(p)' = {}
               /\ calls'[p].pc \in {"awaitClears", "done"}
               /\ calls'[p].pc = "done" =>
                    /\ calls'[p].result = Returned(None)
                    /\ "token" \notin calls'[p].failedClears =>
                            tokenCache'[tokenCacheKey(calls[p].profile)] = None
                    /\ "registration" \notin calls'[p].failedClears =>
                            regCache'[registrationCacheKey(calls[p].profile)] = None]_vars

C6_Witness ==
    \E p \in Procs :
        /\ calls[p].op = "getToken" /\ calls[p].pc = "done"
        /\ calls[p].cachedAtBegin # None
        /\ calls[p].cachedAtBegin[1].registration # None
        /\ ~calls[p].cachedAtBegin[1].token.refreshToken.has
        /\ calls[p].result = Returned(None)
        /\ calls[p].failedClears = {}
        /\ tokenCache[tokenCacheKey(calls[p].profile)] = None
        /\ regCache[registrationCacheKey(calls[p].profile)] = None

\* C7: getToken() never starts a listener, registers a client, builds an
\* authorization URL or opens the browser: the only calls it makes to the
\* cache, the OIDC client, the listener and the browser opener are token
\* load, token save, token and registration clear, and OIDC createToken
\* with grant type refresh_token; no listener is constructed or started by
\* it (the listener of an earlier createToken() stays closed).
CollaboratorApis ==
    {"token.load", "token.save", "token.clear", "registration.load", "registration.save",
     "registration.clear", "oidc.registerClient", "oidc.authorize", "oidc.createToken",
     "server.start", "server.close", "openExternal"}

C7_GetTokenNeverInteractive ==
    \A p \in Procs :
        calls[p].op = "getToken" =>
            /\ \A i \in DOMAIN calls[p].log :
                LET c == calls[p].log[i] IN
                c.api \in CollaboratorApis =>
                    \/ c.api \in {"token.load", "token.save", "token.clear", "registration.clear"}
                    \/ c.api = "oidc.createToken" /\ c.arg = "refresh_token"
            /\ IF calls[p].previous = None
               THEN server[p] = NewServer("") /\ srvResult[p] = NoResult
               ELSE ~server[p].listening /\ srvResult[p].op = "close"

C7_Witness ==
    \E p \in Procs :
        /\ calls[p].op = "getToken" /\ calls[p].pc = "done"
        /\ \E i \in DOMAIN calls[p].log : calls[p].log[i].api = "oidc.createToken"
        /\ \E i \in DOMAIN calls[p].log : calls[p].log[i].api = "token.clear"

\* C8: no OIDC call (authorize, createToken with authorization_code,
\* createToken with refresh_token) made by getToken() or createToken() uses
\* a registration whose issuerUrl is absent.
C8_NoCallWithDeprecatedRegistration ==
    \A p \in Procs :
        \A i \in DOMAIN calls[p].log :
            LET c == calls[p].log[i] IN
            c.api \in {"oidc.authorize", "oidc.createToken"} =>
                /\ c.reg # None
                /\ c.reg[1].issuerUrl.has

\* The step in which getToken() of process p returns a token.
GetTokenReturns(p) ==
    /\ calls[p].op = "getToken"
    /\ calls[p].pc # "done"
    /\ calls'[p].pc = "done"
    /\ calls'[p].result.status = "returned"
    /\ calls'[p].result.token # None

\* The step in which getToken() of process p issues the refresh call.
GetTokenRefreshes(p) ==
    /\ calls[p].op = "getToken"
    /\ calls[p].pc # "awaitRefresh"
    /\ calls'[p].pc = "awaitRefresh"

\* C9 as stated: every token getToken() returns, read from the cache or
\* obtained by refresh, is not expired under the 60-second buffer when it
\* is returned, and a refresh is only performed with a registration that is
\* not expired.
C9_EveryReturnedTokenUnexpired ==
    [][\A p \in Procs :
        /\ GetTokenReturns(p) =>
                now' + 60000 < calls'[p].result.token[1].expiresAt
        /\ GetTokenRefreshes(p) =>
                now' + 60000 < calls'[p].registration[1].expiresAt]_vars

\* What getToken() does confirm: a token it returns from the cache is not
\* expired under the 60-second buffer when it is returned, and a refresh is
\* only performed with a registration that is not expired; a token obtained
\* by refresh is returned as the identity provider issued it.
C9_CachedTokenUnexpired ==
    [][\A p \in Procs :
        /\ (GetTokenReturns(p) /\ calls[p].pc = "awaitTokenLoad") =>
                now' + 60000 < calls'[p].result.token[1].expiresAt
        /\ (GetTokenReturns(p) /\ calls[p].pc # "awaitTokenLoad") =>
                /\ calls[p].pc = "awaitRefreshSave"
                /\ calls'[p].result.token = Some(calls[p].access[1].token)
        /\ GetTokenRefreshes(p) =>
                now' + 60000 < calls'[p].registration[1].expiresAt]_vars

C9_Witness ==
    \E p \in Procs :
        /\ calls[p].op = "getToken" /\ calls[p].pc = "done"
        /\ calls[p].result.status = "returned"
        /\ calls[p].result.token # None
        /\ calls[p].result.token[1].accessToken = 1
        /\ now + 60000 >= calls[p].result.token[1].expiresAt

\* ---------------------------------------------- claims on createToken()

\* The apis of the record of an operation, in order.
Apis(p) == [i \in DOMAIN calls[p].log |-> calls[p].log[i].api]

\* Whether sequence `sub` occurs in sequence `seq`, in this order.
RECURSIVE IsSubsequence(_, _)
IsSubsequence(sub, seq) ==
    IF sub = <<>> THEN TRUE
    ELSE IF seq = <<>> THEN FALSE
    ELSE IF Head(sub) = Head(seq) THEN IsSubsequence(Tail(sub), Tail(seq))
    ELSE IsSubsequence(sub, Tail(seq))

\* C10: createToken() runs the interactive flow whatever is cached, also a
\* valid unexpired token; when it succeeds the record {token, registration,
\* region, startUrl} is saved under the token cache key (the profile's
\* identifier if set, else its startUrl), replacing any earlier record, and
\* the token returned is the exchanged token with identity set to that key.
C10_CreateTokenRunsFlowAndSaves ==
    \A p \in Procs :
        (calls[p].op = "createToken" /\ calls[p].pc = "done"
            /\ calls[p].result.status = "returned") =>
        LET key == IF calls[p].profile.identifier.has
                   THEN calls[p].profile.identifier.val
                   ELSE calls[p].profile.startUrl
            exchanged == calls[p].access[1].token
        IN /\ IsSubsequence(<<"registration.load", "server.start", "oidc.authorize",
                              "openExternal", "oidc.createToken", "server.close",
                              "token.save">>, Apis(p))
           /\ exchanged.accessToken = issued
           /\ tokenCache[key] = Some([token |-> exchanged,
                                      registration |-> calls[p].registration,
                                      region |-> calls[p].profile.region,
                                      startUrl |-> calls[p].profile.startUrl])
           /\ calls[p].result.token =
                Some([accessToken |-> exchanged.accessToken,
                      expiresAt |-> exchanged.expiresAt,
                      refreshToken |-> exchanged.refreshToken,
                      identity |-> Present(key)])

C10_Witness ==
    \E p \in Procs :
        /\ calls[p].op = "createToken" /\ calls[p].pc = "done"
        /\ calls[p].result.status = "returned"
        /\ calls[p].cachedAtBegin # None
        /\ calls[p].cachedAtBegin[1].token.expiresAt > 60000 + now
        /\ tokenCache[tokenCacheKey(calls[p].profile)] # calls[p].cachedAtBegin
        /\ calls[p].result.token[1].identity = Present(calls[p].profile.startUrl)

\* ------------------------------------ claims on sequences of operations

\* C11: after createToken() returned a token, a getToken() that follows at
\* once on the same profile, the token not being within the 60 s buffer
\* (now + 60000 < expiresAt), returns a token with the same accessToken and
\* makes no OIDC call.
C11_RoundTrip ==
    [][\A p \in Procs :
        (/\ GetTokenLoads(p)
         /\ ~LoadFailed(p)
         /\ calls[p].previous # None
         /\ now + 60000 < calls[p].previous[1].expiresAt) =>
            /\ calls'[p].pc = "done"
            /\ calls'[p].result.status = "returned"
            /\ calls'[p].result.token # None
            /\ calls'[p].result.token[1].accessToken = calls[p].previous[1].accessToken
            /\ \A i \in DOMAIN calls'[p].log :
                    calls'[p].log[i].api \notin
                        {"oidc.createToken", "oidc.authorize", "oidc.registerClient"}]_vars

C11_Witness ==
    \E p \in Procs :
        /\ calls[p].op = "getToken" /\ calls[p].pc = "done"
        /\ calls[p].previous # None
        /\ calls[p].result.status = "returned"
        /\ calls[p].result.token # None
        /\ calls[p].result.token[1].accessToken = calls[p].previous[1].accessToken
        /\ calls[p].previous[1].accessToken = 1
        /\ now + 60000 < calls[p].previous[1].expiresAt

\* The step in which process p enters invalidate().
InvalidateBegins(p) ==
    /\ calls[p].pc # "awaitClears"
    /\ calls'[p].pc = "awaitClears"

\* The step in which one clear call of invalidate() settles.
ClearSettles(p) ==
    /\ calls[p].pc = "awaitClears"
    /\ calls'[p] # calls[p]

\* C12: every invalidate() issues the clear of the token entry (token cache
\* key) and the clear of the registration entry (key {region, scopes}) and
\* goes on only when both have settled; a clear that succeeds removes its
\* entry whether the other clear failed, succeeded or is still pending, in
\* either order of completion; invalidate() itself then returns.
C12_BothClearsIndependent ==
    [][\A p \in Procs :
        LET tokenKey == IF calls[p].profile.identifier.has
                        THEN calls[p].profile.identifier.val
                        ELSE calls[p].profile.startUrl
            regKey == [region |-> calls[p].profile.region,
                       scopes |-> calls[p].profile.scopes]
            settled == calls[p].pendingClears \ calls'[p].pendingClears
            failed == calls'[p].failedClears \ calls[p].failedClears
        IN
        /\ InvalidateBegins(p) =>
            /\ calls'[p].pendingClears = {"token", "registration"}
            /\ calls'[p].failedClears = {}
            /\ Len(calls'[p].log) >= 2
            /\ calls'[p].log[Len(calls'[p].log) - 1].api = "token.clear"
            /\ calls'[p].log[Len(calls'[p].log)].api = "registration.clear"
        /\ ClearSettles(p) =>
            /\ Cardinality(settled) = 1
            /\ failed \subseteq settled
            /\ ("token" \in settled \ failed) => tokenCache'[tokenKey] = None
            /\ ("registration" \in settled \ failed) => regCache'[regKey] = None
            /\ ("token" \notin settled) => tokenCache' = tokenCache
            /\ ("registration" \notin settled) => regCache' = regCache
            /\ (calls'[p].pc = "awaitClears") <=> (calls'[p].pendingClears # {})
            /\ (calls'[p].pc # "awaitClears" /\ calls[p].op = "invalidate") =>
                    /\ calls'[p].pc = "done"
                    /\ calls'[p].result.status = "returned"
                    /\ \A which \in {"token", "registration"} \ calls'[p].failedClears :
                          IF which = "token" THEN tokenCache'[tokenKey] = None
                          ELSE regCache'[regKey] = None]_vars

\* invalidate() has ended with the token clear failed, the token entry still
\* cached and the registration entry removed.
C12_Witness ==
    \E p \in Procs :
        /\ calls[p].op = "invalidate" /\ calls[p].pc = "done"
        /\ calls[p].failedClears = {"token"}
        /\ calls[p].cachedAtBegin # None
        /\ tokenCache[tokenCacheKey(calls[p].profile)] = calls[p].cachedAtBegin
        /\ regCache[registrationCacheKey(calls[p].profile)] = None

\* ------------------------------------------ claims on error propagation

\* C13: no failure of a collaborator call made during invalidate(),
\* getToken() or createToken() is swallowed, the session-creation-date write
\* apart: an operation during which a cache clear of invalidate() failed
\* ends by failing (every other failing call ends the operation with an
\* error in the step in which it fails).
C13_NoFailureSwallowed ==
    \A p \in Procs :
        (calls[p].pc = "done" /\ calls[p].failedClears # {}) =>
            calls[p].result.status = "threw"

\* --------------------------------------------------- claims on authorize()

\* How many calls of `api` the record of process p holds.
CallCount(p, api) == Cardinality({i \in DOMAIN calls[p].log : calls[p].log[i].api = api})

\* Process p is inside the try block of authorize().
InAuthorize(p) ==
    calls[p].pc \in {"awaitStart", "awaitAuthorize", "awaitOpen", "awaitRedirect",
                     "awaitExchange"}

\* C14: every authorize() calls close() on its listener exactly once, on
\* every exit path (start failure, authorization-URL failure, browser
\* cancellation, failed redirect outcome, exchange failure, success): no
\* close before the try block ends, one when it has, and once authorize()
\* has returned or thrown its listener is not listening.
C14_ClosesListenerOnce ==
    \A p \in Procs :
        /\ CallCount(p, "server.start") <= 1
        /\ InAuthorize(p) =>
                CallCount(p, "server.start") = 1 /\ CallCount(p, "server.close") = 0
        /\ calls[p].pc = "awaitClose" =>
                /\ CallCount(p, "server.start") = 1 /\ CallCount(p, "server.close") = 1
                /\ srvResult[p].op # "close"
        /\ (~InAuthorize(p) /\ calls[p].pc # "awaitClose") =>
                /\ CallCount(p, "server.close") = CallCount(p, "server.start")
                /\ CallCount(p, "server.start") = 1 => srvResult[p].op = "close"
                /\ ~server[p].listening

\* authorize() threw the error of a failed code exchange, and its listener,
\* which served the redirect, is closed.
C14_Witness ==
    \E p \in Procs :
        /\ calls[p].op = "createToken" /\ calls[p].pc = "done"
        /\ calls[p].result.status = "threw"
        /\ calls[p].result.error.code = "oidc.createToken"
        /\ CallCount(p, "server.close") = 1
        /\ srvResult[p] = [op |-> "close", ok |-> TRUE, error |-> ""]
        /\ Len(server[p].connections) > 0
        /\ ~server[p].listening

\* C15: when a step of authorize() fails (listener start, authorization
\* URL, browser cancellation, a failed redirect outcome, code exchange), the
\* error createToken() ends with is the error of that step, not one raised
\* by the cleanup that follows it.
C15_FailingStepErrorReachesCaller ==
    \A p \in Procs :
        (/\ calls[p].op = "createToken"
         /\ calls[p].pc = "done"
         /\ calls[p].outcome.status = "threw") =>
            calls[p].result = calls[p].outcome

\* ----------------------------------------------------- claims on runFlow()

\* The step in which authorize() of process p ends (its close() settles).
AuthorizeEnds(p) ==
    /\ calls[p].pc = "awaitClose"
    /\ calls'[p].pc # "awaitClose"

\* The step in which the registration clear of runFlow's catch settles.
FaultClearSettles(p) ==
    /\ calls[p].pc = "awaitFaultClear"
    /\ calls'[p].pc # "awaitFaultClear"

\* C16: in runFlow, when authorize() fails with a provider exception that
\* is a client fault, the clear of the registration entry {region, scopes}
\* is issued and awaited before the error is re-thrown (the entry is gone
\* when the clear succeeds) and the token cache is not touched; when
\* authorize() fails with any other error, no clear is issued, the
\* registration obtained in step 1 stays cached and that error is re-thrown.
C16_ClientFaultClearsRegistration ==
    [][\A p \in Procs :
        LET regKey == [region |-> calls[p].profile.region,
                       scopes |-> calls[p].profile.scopes]
        IN
        /\ (AuthorizeEnds(p) /\ calls[p].outcome.status = "threw") =>
            /\ tokenCache' = tokenCache /\ regCache' = regCache
            /\ IF calls[p].outcome.error.class = "clientFault"
               THEN /\ calls'[p].pc = "awaitFaultClear"
                    /\ calls'[p].log[Len(calls'[p].log)].api = "registration.clear"
                    /\ calls'[p].outcome = calls[p].outcome
               ELSE /\ calls'[p].pc = "done"
                    /\ calls'[p].result.status = "threw"
                    /\ calls'[p].result.error.class # "clientFault"
                    /\ srvResult'[p].ok => calls'[p].result = calls[p].outcome
                    /\ calls'[p].log = calls[p].log
                    /\ regCache'[regKey] = calls[p].registration
        /\ FaultClearSettles(p) =>
            /\ tokenCache' = tokenCache
            /\ calls'[p].pc = "done"
            /\ calls'[p].result.status = "threw"
            /\ \/ /\ regCache'[regKey] = None
                  /\ calls'[p].result = calls[p].outcome
               \/ /\ regCache' = regCache
                  /\ calls'[p].result.error.code = "registration.clear"]_vars

\* createToken() failed with the client fault of the code exchange, the
\* registration entry is gone and the token entry is what it was.
C16_Witness ==
    \E p \in Procs :
        /\ calls[p].op = "createToken" /\ calls[p].pc = "done"
        /\ calls[p].result.status = "threw"
        /\ calls[p].result.error.class = "clientFault"
        /\ calls[p].result.error.code = "oidc.createToken"
        /\ regCache[registrationCacheKey(calls[p].profile)] = None
        /\ calls[p].cachedAtBegin # None
        /\ tokenCache[tokenCacheKey(calls[p].profile)] = calls[p].cachedAtBegin

\* ------------------------- claims on getValidatedClientRegistration()

\* The step in which the call process p awaits at `pc` settles without
\* ending the operation with an error.
GoesOnFrom(p, pc) ==
    /\ calls[p].pc = pc
    /\ calls'[p].pc \notin {pc, "done"}

\* How many calls of `api` the record of process p holds after the step.
CallCountAfter(p, api) ==
    Cardinality({i \in DOMAIN calls'[p].log : calls'[p].log[i].api = api})

\* C17: getValidatedClientRegistration() with a cached registration for
\* {region, scopes} that is neither expired nor without issuerUrl returns
\* it with no registerClient call and no cache mutation; with none cached
\* it calls registerClient exactly once and saves the result under
\* {region, scopes} before returning it.
C17_CachedOrRegisteredOnce ==
    [][\A p \in Procs :
        LET regKey == [region |-> calls[p].profile.region,
                       scopes |-> calls[p].profile.scopes]
            cached == regCache[regKey]
        IN
        /\ (/\ GoesOnFrom(p, "awaitRegistrationLoad")
            /\ \/ cached = None
               \/ now + 60000 < cached[1].expiresAt /\ cached[1].issuerUrl.has) =>
                /\ calls'[p].pc = "awaitLoadOr"
                /\ tokenCache' = tokenCache /\ regCache' = regCache
                /\ CallCountAfter(p, "token.clear") = 0
                /\ CallCountAfter(p, "registration.clear") = 0
        /\ (GoesOnFrom(p, "awaitLoadOr") /\ CallCount(p, "registration.clear") = 0) =>
                /\ tokenCache' = tokenCache /\ regCache' = regCache
                /\ registered' = registered
                /\ IF cached # None
                   THEN /\ calls'[p].pc = "awaitStart"
                        /\ calls'[p].registration = cached
                        /\ CallCountAfter(p, "oidc.registerClient") = 0
                        /\ CallCountAfter(p, "registration.save") = 0
                   ELSE /\ calls'[p].pc = "awaitRegisterClient"
                        /\ CallCountAfter(p, "oidc.registerClient") = 1
        /\ GoesOnFrom(p, "awaitRegisterClient") =>
                /\ calls'[p].pc = "awaitRegistrationSave"
                /\ tokenCache' = tokenCache /\ regCache' = regCache
                /\ registered' = registered + 1
                /\ calls'[p].registration # None
                /\ calls'[p].registration[1].clientId = registered'
        /\ GoesOnFrom(p, "awaitRegistrationSave") =>
                /\ calls'[p].pc = "awaitStart"
                /\ calls'[p].registration = calls[p].registration
                /\ regCache'[regKey] = calls[p].registration
                /\ tokenCache' = tokenCache
                /\ CallCountAfter(p, "oidc.registerClient") = 1
                /\ CallCountAfter(p, "registration.save") = 1]_vars

\* authorize() has begun with a client registered by this operation and
\* cached, nothing having been cached before.
C17_Witness ==
    \E p \in Procs :
        /\ calls[p].pc = "awaitStart"
        /\ CallCount(p, "oidc.registerClient") = 1
        /\ CallCount(p, "registration.clear") = 0
        /\ calls[p].registration # None
        /\ calls[p].registration[1].clientId = 1
        /\ regCache[registrationCacheKey(calls[p].profile)] = calls[p].registration

\* C18: when the cached registration is expired or lacks issuerUrl,
\* getValidatedClientRegistration() invalidates and then registers and
\* caches a new client: whatever the outcome of the clear calls, authorize()
\* never runs with the cached registration that was found expired or
\* deprecated, but with the client this operation registered and cached.
C18_NeverAuthorizesWithStaleRegistration ==
    \A p \in Procs :
        (InAuthorize(p) /\ calls[p].ret = "getValidatedClientRegistration") =>
            /\ CallCount(p, "oidc.registerClient") = 1
            /\ calls[p].registration # None
            /\ calls[p].registration[1].clientId = registered
            /\ regCache[[region |-> calls[p].profile.region,
                         scopes |-> calls[p].profile.scopes]] = calls[p].registration

\* ------------------------------------------------ claims on refreshToken()

\* The step in which the refresh call of process p fails.
RefreshCallFails(p) ==
    /\ calls[p].pc = "awaitRefresh"
    /\ calls'[p].pc \notin {"awaitRefresh", "awaitRefreshSave"}

\* The step in which the token clear of refreshToken's catch settles.
RefreshClearSettles(p) ==
    /\ calls[p].pc = "awaitRefreshClear"
    /\ calls'[p].pc # "awaitRefreshClear"

\* C19: when the refresh call fails, a network error and any failure that
\* is not a provider client fault change no cache and issue no clear; a
\* provider client fault has the token entry cleared (it is gone when the
\* clear succeeds) and leaves the registration cache as it is; in no case
\* is a token saved.
C19_RefreshFailureCacheEffects ==
    [][\A p \in Procs :
        LET tokenKey == IF calls[p].profile.identifier.has
                        THEN calls[p].profile.identifier.val
                        ELSE calls[p].profile.startUrl
        IN
        /\ RefreshCallFails(p) =>
            /\ tokenCache' = tokenCache /\ regCache' = regCache
            /\ CallCountAfter(p, "token.save") = 0
            /\ \/ /\ calls'[p].pc = "done"
                  /\ calls'[p].result.status = "threw"
                  /\ calls'[p].result.error.class \in {"network", "serverFault"}
                  /\ CallCountAfter(p, "token.clear") = 0
                  /\ CallCountAfter(p, "registration.clear") = 0
               \/ /\ calls'[p].pc = "awaitRefreshClear"
                  /\ calls'[p].outcome.error.class = "clientFault"
                  /\ calls'[p].log[Len(calls'[p].log)].api = "token.clear"
                  /\ CallCountAfter(p, "registration.clear") = 0
        /\ RefreshClearSettles(p) =>
            /\ regCache' = regCache
            /\ calls'[p].pc = "done"
            /\ calls'[p].result.status = "threw"
            /\ CallCountAfter(p, "token.save") = 0
            /\ CallCountAfter(p, "registration.clear") = 0
            /\ \/ tokenCache'[tokenKey] = None
               \/ /\ tokenCache' = tokenCache
                  /\ calls'[p].result.error.code = "token.clear"]_vars

\* getToken() failed with the client fault of the refresh call; the token
\* entry it found is gone.
C19_Witness ==
    \E p \in Procs :
        /\ calls[p].op = "getToken" /\ calls[p].pc = "done"
        /\ calls[p].result.status = "threw"
        /\ calls[p].result.error.class = "clientFault"
        /\ calls[p].cachedAtBegin # None
        /\ tokenCache[tokenCacheKey(calls[p].profile)] = None
        /\ CallCount(p, "token.save") = 0

\* C20: whenever refreshToken fails, getToken() fails with the error the
\* OIDC refresh call raised: on a network error, on a client fault (also
\* when the token clear that follows fails) and on other provider errors.
C20_RefreshErrorReachesCaller ==
    \A p \in Procs :
        (/\ calls[p].op = "getToken"
         /\ calls[p].pc = "done"
         /\ CallCount(p, "oidc.createToken") = 1
         /\ CallCount(p, "token.save") = 0) =>
            /\ calls[p].result.status = "threw"
            /\ calls[p].result.error.code = "oidc.createToken"

\* ---------------------------------------------------- claims on isExpired

\* The step in which process p calls isExpired.
IsExpiredAnswers(p) ==
    /\ calls[p].op # "isExpired"
    /\ calls'[p].op = "isExpired"

\* C21: isExpired(record) is true exactly when now + 60000 >= expiresAt:
\* true for expiresAt in the past, true for expiresAt at most 60000 ms
\* ahead, exactly 60000 ms ahead included, false for expiresAt more than
\* 60000 ms ahead.
C21_ExpiredWithinBuffer ==
    [][\A p \in Procs :
        IsExpiredAnswers(p) =>
            LET expiresAt == calls'[p].expirable[1].expiresAt
                answer == calls'[p].answer[1]
            IN
            /\ answer <=> (now + 60000 >= expiresAt)
            /\ expiresAt < now => answer
            /\ (expiresAt >= now /\ expiresAt - now <= 60000) => answer
            /\ expiresAt - now = 60000 => answer
            /\ expiresAt - now > 60000 => ~answer]_vars

\* isExpired answered true for expiresAt 60001, that is at clock 1 or
\* later: exactly 60000 ms ahead at the earliest.
C21_Witness ==
    \E p \in Procs :
        /\ calls[p].op = "isExpired"
        /\ calls[p].expirable = <<[expiresAt |-> 60001]>>
        /\ calls[p].answer = <<TRUE>>

\* ------------------------------------- claims on the listener's lifecycle

\* C22: every request to "/" the started listener receives is answered
\* with status 200, whatever its query parameters and whether or not an
\* earlier request had already settled the authorization future.
C22_CallbackAlways200 ==
    \A s \in Servers :
        \A i \in DOMAIN served[s] :
            served[s][i].callback => served[s][i].status = 200

\* A second request to "/", asking for a rejection after the future was
\* resolved by the first, was answered with 200.
C22_Witness ==
    \E s \in Servers :
        /\ Len(served[s]) >= 2
        /\ served[s][1].callback /\ served[s][1].asked.status = "resolved"
        /\ served[s][2].callback /\ served[s][2].asked.status = "rejected"
        /\ served[s][2].status = 200
        /\ server[s].promise.status = "resolved"

\* The step in which close() is called on instance s (a close() that fails
\* again right after a failed close() changes nothing and is no step).
CloseCalled(s) ==
    /\ srvResult'[s].op = "close"
    /\ srvResult'[s] # srvResult[s] \/ server'[s] # server[s]

\* C23: close() fails when the listener is not started (before start()
\* has completed, after a close()); called on the started listener it
\* succeeds, destroys every connection accepted so far and leaves the
\* listener not listening.
C23_CloseNeedsStarted ==
    [][\A s \in Servers :
        CloseCalled(s) =>
            /\ srvResult'[s].ok <=> server[s].listening
            /\ ~srvResult'[s].ok => srvResult'[s].error = "AuthSSOServer: Server not started"
            /\ ~server'[s].listening
            /\ Len(server'[s].connections) = Len(server[s].connections)
            /\ server[s].listening =>
                    \A i \in DOMAIN server'[s].connections :
                        server'[s].connections[i] = "destroyed"]_vars

\* close() succeeded on a listener that had accepted two connections, and
\* both are destroyed.
C23_Witness ==
    \E s \in Servers :
        /\ srvResult[s] = [op |-> "close", ok |-> TRUE, error |-> ""]
        /\ server[s].connections = <<"destroyed", "destroyed">>
        /\ ~server[s].listening

\* The step in which start() is called on instance s (a start() that ends
\* as the lifecycle call before it did is not told apart from no step).
StartCalled(s) ==
    /\ srvResult'[s].op = "start"
    /\ srvResult'[s] # srvResult[s]

\* C24: an instance goes through at most one start/close cycle: start() is
\* refused while the instance is started, and once close() has closed the
\* started instance no later start() brings it back to listening.
C24_OneStartCloseCycle ==
    [][\A s \in Servers :
        /\ (StartCalled(s) /\ server[s].listening) =>
                ~srvResult'[s].ok /\ server'[s] = server[s]
        /\ (srvResult[s] = [op |-> "close", ok |-> TRUE, error |-> ""]) =>
                ~server'[s].listening]_vars

\* C25: redirectUri is readable only while the listener is bound: read
\* before start() succeeded or after close() it fails with
\* MissingPortError; read on the started listener it is the loopback base
\* URL "http://127.0.0.1", then ":" and the bound port, 60821.
C25_RedirectUriOnlyWhileBound ==
    \A s \in Servers :
        IF server[s].listening
        THEN redirectUri(server[s]) =
                [ok |-> TRUE, value |-> "http://127.0.0.1:60821",
                 error |-> [code |-> "", message |-> ""]]
        ELSE /\ ~redirectUri(server[s]).ok
             /\ redirectUri(server[s]).error.code = "MissingPort"

\* The listener was started and closed, and redirectUri now fails.
C25_Witness ==
    \E s \in Servers :
        /\ srvResult[s] = [op |-> "close", ok |-> TRUE, error |-> ""]
        /\ ~server[s].listening
        /\ ~redirectUri(server[s]).ok
        /\ redirectUri(server[s]).error.message = "AuthSSOServer: missing auth server port"

\* The entries of p's log for one collaborator call.
CallsOf(log, api) == {i \in DOMAIN log : log[i].api = api}

\* openSsoPortalLink(location) of p settles in this step.
OpenSettles(p) == calls[p].pc = "awaitOpen" /\ calls'[p].pc # "awaitOpen"

\* The listener of p's authorize() closes after the opener's refusal.
CancelledCloseSettles(p) ==
    /\ calls[p].pc = "awaitClose"
    /\ calls'[p] # calls[p]
    /\ calls[p].outcome.status = "threw"
    /\ calls[p].outcome.error.class = "cancelled"

SessionDateSettles(p) ==
    calls[p].pc = "awaitSessionDate" /\ calls'[p] # calls[p]

\* The token save of p's createToken() succeeds in this step.
TokenSaveSucceeds(p) ==
    calls[p].pc = "awaitTokenSave" /\ calls'[p].pc = "awaitSessionDate"

\* C27: a failed write of the session creation date is never thrown:
\* createToken() returns the token and the token record stays saved. A
\* successful write sets the entry of this profile's token cache key to the
\* time at which createToken() issued it and keeps the entries of all
\* other keys.
C27_SessionDateWriteNeverThrows ==
    [][\A p \in Procs :
        /\ TokenSaveSucceeds(p) =>
              /\ calls'[p].newDates[Key(p)] = Some(now)
              /\ \A k \in TokenKeys \ {Key(p)} :
                    calls'[p].newDates[k] = sessionDates[k]
        /\ SessionDateSettles(p) =>
              /\ calls'[p].pc = "done"
              /\ calls'[p].result.status = "returned"
              /\ calls'[p].result.token
                    = Some([ValueOf(calls[p].access).token EXCEPT
                                !.identity = Present(Key(p))])
              /\ tokenCache' = tokenCache
              /\ tokenCache[Key(p)] = calls[p].access
              /\ \/ sessionDates' = sessionDates
                 \/ /\ sessionDates'[Key(p)] = calls[p].newDates[Key(p)]
                    /\ \A k \in TokenKeys \ {Key(p)} :
                          sessionDates'[k] = sessionDates[k]
      ]_vars

\* createToken() returned after a write that replaced this key's earlier
\* entry and left the entry of another key in place.
C27_Witness ==
    \E p \in Procs :
        /\ calls[p].op = "createToken"
        /\ calls[p].pc = "done"
        /\ calls[p].result.status = "returned"
        /\ now > 0
        /\ sessionDates[Key(p)] = Some(now)
        /\ \E k \in TokenKeys \ {Key(p)} : sessionDates[k] = Some(0)

\* createToken() returned its token although the write failed.
C27_WitnessFailedWrite ==
    \E p \in Procs :
        /\ calls[p].op = "createToken"
        /\ calls[p].pc = "done"
        /\ calls[p].result.status = "returned"
        /\ sessionDates[Key(p)] = None
        /\ tokenCache[Key(p)] = calls[p].access

\* createToken() of p waits on the listener future, the browser opened.
WaitsForRedirect(p) == calls[p].op = "createToken" /\ calls[p].pc = "awaitRedirect"

\* C28: when the awaited OIDC and cache calls settle, a createToken() that
\* waits on its listener after the browser was opened ends, with a token
\* or an error and its listener closed, once a request to "/" has
\* arrived. Without such a request it never goes on and its listener
\* stays started: nothing but the settled future ends the wait.
C28_EndsOnlyOnceRedirected ==
    /\ \A p \in SeqProcs :
          (WaitsForRedirect(p) /\ CallbackIndexes(p) # {})
              ~> (/\ calls[p].pc = "done"
                  /\ calls[p].result.status \in {"returned", "threw"}
                  /\ ~server[p].listening
                  /\ srvResult[p] = [op |-> "close", ok |-> TRUE, error |-> ""])
    /\ [](\A p \in SeqProcs :
            (WaitsForRedirect(p) /\ CallbackIndexes(p) = {}) =>
                /\ server[p].listening
                /\ server[p].promise.status = "pending")
    /\ [][\A p \in SeqProcs :
            (WaitsForRedirect(p) /\ CallbackIndexes(p) = {}) =>
                calls'[p] = calls[p] /\ server'[p].listening]_vars

\* createToken() ended, its listener closed, after a request to "/".
C28_Witness ==
    \E p \in SeqProcs :
        /\ calls[p].op = "createToken"
        /\ calls[p].pc = "done"
        /\ CallbackIndexes(p) # {}
        /\ ~server[p].listening
        /\ \E i \in DOMAIN calls[p].log : calls[p].log[i].api = "server.waitForAuthorization"

\* createToken() waits although the only request that came was for
\* another path; no further step of its own is enabled.
C28_WitnessWaiting ==
    \E p \in SeqProcs :
        /\ WaitsForRedirect(p)
        /\ served[p] # <<>>
        /\ CallbackIndexes(p) = {}
        /\ ~ENABLED CreateTokenStep(p)

\* The calls p made on its listener, in the order it made them.
ListenerTouches(p) ==
    LET touched == SelectSeq(calls[p].log,
                       LAMBDA c : c.api \in {"server.start", "server.redirectUri",
                                             "server.waitForAuthorization", "server.close"})
    IN [i \in DOMAIN touched |-> touched[i].api]

\* The code exchanges p asked of OIDC.
CodeExchanges(p) ==
    {i \in DOMAIN calls[p].log :
        /\ calls[p].log[i].api = "oidc.createToken"
        /\ calls[p].log[i].arg = "authorization_code"}

\* C30: authorize() touches its listener only in the order start, read of
\* redirectUri, waitForAuthorization, close (a failed step skips to
\* close). The OIDC createToken call of grant type authorization_code is
\* made only after the wait on a listener future that resolved, with the
\* very code it resolved with; a future that was rejected is followed by
\* no code exchange.
C30_ListenerOrderAndExchange ==
    \A p \in SeqProcs :
        calls[p].op = "createToken" =>
            /\ ListenerTouches(p) \in
                  {<<>>,
                   <<"server.start">>,
                   <<"server.start", "server.close">>,
                   <<"server.start", "server.redirectUri">>,
                   <<"server.start", "server.redirectUri", "server.close">>,
                   <<"server.start", "server.redirectUri", "server.waitForAuthorization">>,
                   <<"server.start", "server.redirectUri", "server.waitForAuthorization",
                     "server.close">>}
            /\ Cardinality(CodeExchanges(p)) <= 1
            /\ \A i \in CodeExchanges(p) :
                  /\ \E j \in 1..(i - 1) :
                        calls[p].log[j].api = "server.waitForAuthorization"
                  /\ server[p].promise.status = "resolved"
                  /\ server[p].promise.value # ""
                  /\ calls[p].code = server[p].promise.value
            /\ server[p].promise.status = "rejected" => CodeExchanges(p) = {}

\* The code was exchanged after the listener resolved, and the listener
\* was closed afterwards.
C30_Witness ==
    \E p \in SeqProcs :
        /\ calls[p].op = "createToken"
        /\ CodeExchanges(p) # {}
        /\ calls[p].code = server[p].promise.value
        /\ Len(ListenerTouches(p)) = 4

\* The listener future was rejected and createToken() ended with no exchange.
C30_WitnessRejected ==
    \E p \in SeqProcs :
        /\ calls[p].op = "createToken"
        /\ calls[p].pc = "done"
        /\ server[p].promise.status = "rejected"
        /\ Len(ListenerTouches(p)) = 4
        /\ CodeExchanges(p) = {}

\* createToken() of process c returned and the record it saved is the
\* cached one.
SavedByCompletedCreateToken(c) ==
    /\ calls[c].op = "createToken"
    /\ calls[c].pc = "done"
    /\ calls[c].result.status = "returned"
    /\ tokenCache[Key(c)] = calls[c].access

\* The refresh of g's getToken(), started from a record other than the one
\* c saved, settles its cache call (the save, or the clear after a client
\* fault) in this step.
OlderRefreshSettles(g, c) ==
    /\ calls[g].op = "getToken"
    /\ calls[g].pc \in {"awaitRefreshSave", "awaitRefreshClear"}
    /\ Key(g) = Key(c)
    /\ calls[g].data # calls[c].access
    /\ calls'[g] # calls[g]

\* C29: concurrent calls on one profile are tolerated: the token record a
\* completed createToken() saved is neither removed nor overwritten by a
\* getToken() whose refresh started from an older record, whether that
\* refresh succeeds or fails with a client fault.
C29_CompletedSaveSurvivesOlderRefresh ==
    [][\A g, c \in Procs :
        (SavedByCompletedCreateToken(c) /\ OlderRefreshSettles(g, c)) =>
            tokenCache'[Key(c)] = tokenCache[Key(c)]
      ]_vars

\* authorize() of p has sent its authorization request.
SentAuthorize(p) ==
    calls[p].op = "createToken" /\ calls[p].authorizeRequest.state # ""

\* authorize() of p has sent its code exchange.
SentExchange(p) ==
    calls[p].op = "createToken" /\ calls[p].tokenRequest.grantType # ""

\* C31: in each authorize() the state of the authorization request is the
\* one its listener validates redirects against, the codeVerifier of the
\* code exchange is the one whose S256 digest went out as codeChallenge,
\* and the code exchange carries the redirectUri of the authorization
\* request; two invocations never share a state or a verifier.
C31_StateVerifierUriBound ==
    /\ \A p \in Procs :
          /\ SentAuthorize(p) =>
                /\ calls[p].authorizeRequest.state = server[p].state
                /\ calls[p].authorizeRequest.redirectUri = "http://127.0.0.1:60821"
          /\ SentExchange(p) =>
                /\ SentAuthorize(p)
                /\ calls[p].authorizeRequest.codeChallenge
                      = "S256:" \o calls[p].tokenRequest.codeVerifier
                /\ calls[p].tokenRequest.redirectUri
                      = calls[p].authorizeRequest.redirectUri
    /\ \A p, q \in Procs :
          (p # q /\ SentAuthorize(p) /\ SentAuthorize(q)) =>
              /\ server[p].state # server[q].state
              /\ calls[p].authorizeRequest.state # calls[q].authorizeRequest.state
              /\ calls[p].authorizeRequest.codeChallenge
                    # calls[q].authorizeRequest.codeChallenge
              /\ calls[p].codeVerifier # calls[q].codeVerifier

\* Two invocations have each sent both requests.
C31_Witness ==
    \E p, q \in Procs :
        /\ p # q
        /\ SentExchange(p)
        /\ SentExchange(q)
        /\ calls[p].tokenRequest.codeVerifier # ""

\* createToken() of o registered a client and returned; createToken() of
\* q, for a profile of another startUrl, began afterwards.
AfterRegistrationBy(o, q) ==
    /\ calls[o].op = "createToken"
    /\ calls[o].pc = "done"
    /\ calls[o].result.status = "returned"
    /\ CallsOf(calls[o].log, "oidc.registerClient") # {}
    /\ calls[q].op = "createToken"
    /\ calls[q].invocation > calls[o].invocation
    /\ calls[q].profile.startUrl # calls[o].profile.startUrl
    /\ calls[q].profile.region = calls[o].profile.region
    /\ calls[q].profile.scopes = calls[o].profile.scopes

\* q authorizes with the registration o made, registering none itself.
UsesRegistrationOf(o, q) ==
    /\ CallsOf(calls[q].log, "oidc.registerClient") = {}
    /\ SentAuthorize(q) =>
          /\ calls[q].registration = calls[o].registration
          /\ calls[q].authorizeRequest.clientId = ValueOf(calls[o].registration).clientId
          /\ ValueOf(calls[q].registration).issuerUrl
                = [has |-> TRUE, val |-> calls[o].profile.startUrl]

\* q found the cached registration expired and invalidated it.
FoundExpired(q) == calls[q].ret = "getValidatedClientRegistration"

\* invalidate() of p settles one of its clear calls in this step.
InvalidateClearSettles(p) ==
    /\ calls[p].op = "invalidate"
    /\ calls[p].pc = "awaitClears"
    /\ calls'[p] # calls[p]

\* invalidate() touches no token entry but its own and, its clear calls
\* succeeding, leaves neither its token entry nor any registration.
InvalidateRemovesSharedRegistration ==
    [][\A p \in Procs :
        InvalidateClearSettles(p) =>
            /\ \A k \in TokenKeys \ {tokenCacheKey(calls[p].profile)} :
                  tokenCache'[k] = tokenCache[k]
            /\ (calls'[p].pc = "done" /\ calls'[p].failedClears = {}) =>
                  /\ tokenCache'[tokenCacheKey(calls[p].profile)] = None
                  /\ \A k \in DOMAIN regCache : regCache'[k] = None
      ]_vars

C32_WitnessInvalidate ==
    \E p \in Procs :
        /\ calls[p].op = "invalidate"
        /\ calls[p].pc = "done"
        /\ calls[p].failedClears = {}
        /\ tokenCache[tokenCacheKey(calls[p].profile)] = None
        /\ \E k \in TokenKeys : tokenCache[k] # None
        /\ \A k \in DOMAIN regCache : regCache[k] = None

\* The listeners that are started.
Started == {s \in Servers : server[s].listening}

\* start() of q's authorize() settles in this step.
StartSettles(q) == calls[q].pc = "awaitStart" /\ calls'[q] # calls[q]

\* close() of q's authorize() settles in this step.
CloseSettles(q) == calls[q].pc = "awaitClose" /\ calls'[q] # calls[q]

\* C33: all listeners bind port 60821, so at most one is started at a
\* time. While the listener of one authorize() is started, the start() of
\* a second authorize() fails, and neither that failure nor the close()
\* the second flow then runs settles or closes the first flow's listener.
C33_OneListenerAtATime ==
    /\ [](Cardinality(Started) <= 1)
    /\ [][\A p, q \in Procs :
            (p # q /\ server[p].listening) =>
                /\ StartSettles(q) =>
                      /\ ~srvResult'[q].ok
                      /\ ~server'[q].listening
                      /\ calls'[q].pc = "awaitClose"
                      /\ calls'[q].outcome.status = "threw"
                      /\ server'[p] = server[p]
                /\ CloseSettles(q) =>
                      /\ ~srvResult'[q].ok
                      /\ server'[p] = server[p]
                      /\ calls'[p] = calls[p]
      ]_vars

\* The second flow failed at start() and ended while the first one still
\* waits, its listener started and its future pending.
C33_Witness ==
    \E p, q \in Procs :
        /\ p # q
        /\ calls[p].pc = "awaitRedirect"
        /\ server[p].listening
        /\ server[p].promise.status = "pending"
        /\ calls[q].op = "createToken"
        /\ calls[q].pc = "done"
        /\ calls[q].result.status = "threw"
        /\ CallsOf(calls[q].log, "server.redirectUri") = {}
        /\ CallsOf(calls[q].log, "server.close") # {}

\* The first flow returned its token after the second failed at start().
C33_WitnessCompleted ==
    \E p, q \in Procs :
        /\ p # q
        /\ calls[p].op = "createToken"
        /\ calls[p].result.status = "returned"
        /\ server[p].promise.status = "resolved"
        /\ calls[q].op = "createToken"
        /\ calls[q].result.status = "threw"
        /\ CallsOf(calls[q].log, "server.start") # {}
        /\ CallsOf(calls[q].log, "server.redirectUri") = {}
        /\ calls[q].invocation < calls[p].invocation

\* The refresh telemetry records p emitted.
RefreshRecords(p) == CallsOf(calls[p].log, "telemetry.aws_refreshCredentials")

\* getToken() of p took the refresh path.
TookRefreshPath(p) ==
    calls[p].op = "getToken" /\ CallsOf(calls[p].log, "oidc.createToken") # {}

\* C34: a refresh telemetry record is emitted exactly when the refresh
\* path fails with an error that is no network error: one record for such
\* a failure, none on success, none on a network error, none without a
\* refresh. Its credential source is awsId for the profile of the Builder
\* ID start URL and iamIdentityCenter for any other.
C34_RefreshTelemetry ==
    \A p \in Procs :
        calls[p].op = "getToken" =>
            /\ Cardinality(RefreshRecords(p)) <= 1
            /\ \A i \in RefreshRecords(p) :
                  calls[p].log[i].arg =
                      IF calls[p].profile.startUrl = "https://view.awsapps.com/start"
                      THEN "awsId" ELSE "iamIdentityCenter"
            /\ ~TookRefreshPath(p) => RefreshRecords(p) = {}
            /\ (TookRefreshPath(p) /\ calls[p].pc \in {"awaitRefresh", "awaitRefreshSave"})
                  => RefreshRecords(p) = {}
            /\ (TookRefreshPath(p) /\ calls[p].pc = "done"
                                   /\ calls[p].result.status = "returned")
                  => RefreshRecords(p) = {}
            /\ (TookRefreshPath(p) /\ calls[p].pc = "awaitRefreshClear")
                  => Cardinality(RefreshRecords(p)) = 1
            /\ (TookRefreshPath(p) /\ calls[p].pc = "done"
                                   /\ calls[p].result.status = "threw")
                  => (RefreshRecords(p) = {}
                        <=> calls[p].result.error.class = "network")

\* A failed refresh of the Identity Center profile emitted its record.
C34_Witness ==
    \E p \in Procs :
        /\ TookRefreshPath(p)
        /\ calls[p].pc = "done"
        /\ calls[p].result.status = "threw"
        /\ calls[p].profile.startUrl # "https://view.awsapps.com/start"
        /\ \E i \in RefreshRecords(p) : calls[p].log[i].arg = "iamIdentityCenter"

\* A refresh that failed with a network error emitted nothing.
C34_WitnessNetwork ==
    \E p \in Procs :
        /\ TookRefreshPath(p)
        /\ calls[p].pc = "done"
        /\ calls[p].result.error.class = "network"
        /\ RefreshRecords(p) = {}

\* ------------------------------- claims on startWorkspaceWithProgress()

\* The i-th read of process p observed STOPPED or STOPPING right after a
\* read that observed STARTING.
BadAfterStarting(p, i) ==
    /\ i >= 2
    /\ calls[p].workspace.observed[i] \in {"STOPPED", "STOPPING"}
    /\ calls[p].workspace.observed[i - 1] = "STARTING"

\* The polls of process p so far: every read but the initial one.
PollsOf(p) == 2..Len(calls[p].workspace.observed)

\* C35: startWorkspaceWithProgress() returns the workspace at once, with no
\* poll and no startDevelopmentWorkspace call, when RUNNING was asked for
\* and the initial read is RUNNING, and never returns without a poll
\* otherwise; it calls startDevelopmentWorkspace only on polls that observed
\* STOPPED; a poll that observes STOPPED or STOPPING right after a read that
\* observed STARTING ends the call with BadWorkspaceState, one that observes
\* FAILED with FailedWorkspace, one that observes RUNNING with the
\* workspace; and a call that ends with Timeout has observed RUNNING in no
\* poll.
C35_StartWorkspaceOutcomes ==
    \A p \in SeqProcs :
        LET w == calls[p].workspace
            n == Len(w.observed)
            debounce == n >= 1 /\ w.requested = "RUNNING" /\ w.observed[1] = "RUNNING"
        IN /\ debounce =>
                /\ w.pc = "done" /\ w.result = WorkspaceReturned("RUNNING")
                /\ n = 1 /\ w.starts = {}
           /\ (w.result.status = "returned" /\ n = 1) => debounce
           /\ w.starts \subseteq {i \in PollsOf(p) : w.observed[i] = "STOPPED"}
           /\ \A i \in PollsOf(p) :
                /\ BadAfterStarting(p, i) =>
                     i = n /\ w.pc = "done" /\ w.result = WorkspaceThrew("BadWorkspaceState")
                /\ w.observed[i] = "FAILED" =>
                     i = n /\ w.pc = "done" /\ w.result = WorkspaceThrew("FailedWorkspace")
                /\ w.observed[i] = "RUNNING" =>
                     i = n /\ w.pc = "done" /\ w.result = WorkspaceReturned("RUNNING")
           /\ w.result = WorkspaceThrew("Timeout") =>
                /\ ~debounce
                /\ \A i \in PollsOf(p) : w.observed[i] # "RUNNING"

\* A call that started the workspace on a STOPPED poll and then ended with
\* BadWorkspaceState on a STOPPING poll right after a STARTING one.
C35_Witness ==
    \E p \in SeqProcs :
        /\ calls[p].workspace.result = WorkspaceThrew("BadWorkspaceState")
        /\ calls[p].workspace.starts # {}
        /\ BadAfterStarting(p, Len(calls[p].workspace.observed))

\* The return without a poll.
C35_WitnessDebounce ==
    \E p \in SeqProcs :
        /\ calls[p].workspace.result = WorkspaceReturned("RUNNING")
        /\ Len(calls[p].workspace.observed) = 1

\* A call whose initial read failed and that returned on its first RUNNING
\* poll.
C35_WitnessPolled ==
    \E p \in SeqProcs :
        /\ calls[p].workspace.result = WorkspaceReturned("RUNNING")
        /\ calls[p].workspace.observed[1] = "error"
        /\ Len(calls[p].workspace.observed) > 2

\* A call that ended with Timeout while its startDevelopmentWorkspace call
\* was pending.
C35_WitnessTimeout ==
    \E p \in SeqProcs :
        /\ calls[p].workspace.result = WorkspaceThrew("Timeout")
        /\ calls[p].workspace.starts # {}

\* A call that ended with FailedWorkspace.
C35_WitnessFailed ==
    \E p \in SeqProcs : calls[p].workspace.result = WorkspaceThrew("FailedWorkspace")

\* ----------------------------------- claims on the CawsClient identity

\* The service returned an identity to the verifySession() of process p.
IdentityReturned(p) == calls[p].client.identity # None

\* What holds of a verifySession() to which the service returned an
\* identity, given whether the id it found stored counts as pinned to
\* another identity: it failed with both fields as found, or it stored the
\* identity and requested the details only when it found none.
PinnedOrStored(p, pinnedToOther) ==
    LET c == calls[p].client
    IN IF pinnedToOther
       THEN /\ c.pc = "done" /\ c.result = "IdentityMismatch"
            /\ c.userId = c.entry.userId
            /\ c.userDetails = c.entry.userDetails
            /\ c.requests = <<"verifySession">>
       ELSE /\ c.userId = c.identity
            /\ c.result # "IdentityMismatch"
            /\ (\E i \in DOMAIN c.requests : c.requests[i] = "getUserDetails")
                   => c.entry.userDetails = None
            /\ (c.result = "returned" /\ c.entry.userDetails = None)
                   => c.requests = <<"verifySession", "getUserDetails">>

\* No request is sent and verifySession() fails with NotLoggedIn while no
\* provider has been set.
NotLoggedInWithoutProvider(p) ==
    LET c == calls[p].client
    IN ~c.bearerTokenProvider =>
           /\ c.requests = <<>>
           /\ c.op # "setCredentials"
           /\ c.pc = "done" => c.result = "NotLoggedIn"

\* C36 as stated: a verifySession() that finds any stored user id different
\* from the identity the service returns fails and leaves userId and
\* userDetails as they were; otherwise it stores the identity and fetches
\* the details only when none are stored; without a provider nothing is
\* sent and the call fails with NotLoggedIn.
C36_AnyStoredIdPins ==
    \A p \in SeqProcs :
        /\ IdentityReturned(p) =>
               PinnedOrStored(p, /\ calls[p].client.entry.userId # None
                                 /\ calls[p].client.entry.userId # calls[p].client.identity)
        /\ NotLoggedInWithoutProvider(p)

\* C36 amended: the same, for a stored user id that is not the empty string;
\* a stored empty id is treated as no stored id.
C36_NonEmptyStoredIdPins ==
    \A p \in SeqProcs :
        /\ IdentityReturned(p) =>
               PinnedOrStored(p, /\ calls[p].client.entry.userId \notin {None, Some("")}
                                 /\ calls[p].client.entry.userId # calls[p].client.identity)
        /\ NotLoggedInWithoutProvider(p)

\* A verifySession() called by itself that failed on another identity than
\* the stored one, with details stored by an earlier call.
C36_Witness ==
    \E p \in SeqProcs :
        /\ calls[p].client.op = "verifySession"
        /\ calls[p].client.result = "IdentityMismatch"
        /\ calls[p].client.userDetails # None
        /\ calls[p].client.userId \in {Some(i) : i \in Identities}

\* setCredentials(provider, '') whose verifySession() stored the identity
\* the service returned.
C36_WitnessEmptyId ==
    \E p \in SeqProcs :
        /\ calls[p].client.entry.userId = Some("")
        /\ calls[p].client.identity # None
        /\ calls[p].client.userId = calls[p].client.identity
        /\ calls[p].client.result = "returned"

\* A verifySession() on a client constructed without a provider.
C36_WitnessNotLoggedIn ==
    \E p \in SeqProcs :
        /\ ~calls[p].client.bearerTokenProvider
        /\ calls[p].client.result = "NotLoggedIn"

\* A verifySession() that found details stored and requested none.
C36_WitnessDetailsKept ==
    \E p \in SeqProcs :
        /\ calls[p].client.result = "returned"
        /\ calls[p].client.entry.userDetails # None
        /\ calls[p].client.entry.userDetails # calls[p].client.identity
        /\ calls[p].client.requests = <<"verifySession">>

====
